---------------------------- MODULE Spec2Model ----------------------------
(***************************************************************************)
(* A model of the project aggregate of the photo editor: the Mongoose      *)
(* Project document (image, adjustments, crop, history, version,           *)
(* lastEdited), the REST handlers that create, change and list it (POST    *)
(* /api/upload, PUT /:id, PUT /:id/adjustments, PUT /:id/crop, POST        *)
(* /:id/reset, GET /:id/history), including the JavaScript value semantics *)
(* (typeof, string/number coercion in + and <) that decide what a request  *)
(* body stores, and the browser components that render, export and crop a  *)
(* project (EditorPage, ExportPanel, CropTool).                            *)
(***************************************************************************)
EXTENDS Integers, Sequences, FiniteSets, TLC

VARIABLES
    db,        \* the stored Project document
    now,       \* the wall clock read by `new Date()`
    nextId,    \* source of the _id Mongoose gives each history subdocument
    steps,     \* number of writing requests handled so far
    req,       \* the request handled last
    res,       \* the response sent last
    inflight,  \* per concurrent request: its position and its in-memory document
    account,   \* the User document's storage counters
    editor,    \* the state of the EditorPage component in the browser
    cropTool,  \* the state of the CropTool component and its fabric image
    imageCache, \* an ImageCache: its entries in insertion order with access times
    debounce,  \* a useDebounce hook: its timeoutRef, the pending timers, the log
    batch,     \* a processBatch call: its arguments, loop index and results
    dashboard, \* the DashboardPage: its upload list, running handlers, timers
    storage    \* the user's projects and files on disk, and the uploads under way

(* The state of the client utilities and of the storage accounting.        *)
utils == <<imageCache, debounce, batch, dashboard, storage>>

(* The state of the project routes and of the editor components.           *)
server == <<db, now, nextId, steps, req, res, inflight, account>>
pages == <<editor, cropTool>>

vars == <<db, now, nextId, steps, req, res, inflight, account, editor, cropTool,
          utils>>

---------------------------------------------------------------------------
(* Bounds of the model.                                                    *)

MaxSteps == 2
MaxClock == 2
ImgW == 20
ImgH == 10
StorageLimit == 8

(* Program constants.                                                      *)

HistoryCap == 50
ExposureMin == -5
ExposureMax == 5
ScalarMin == -100
ScalarMax == 100
GrainMin == 0
GrainMax == 100
CurveMin == 0
CurveMax == 255
RotationMin == -180
RotationMax == 180
InitialVersion == 1
TitleMax == 100
DescriptionMax == 500
TagMax == 30

---------------------------------------------------------------------------
(* JavaScript values.  A value carries its typeof tag t; n is the value of *)
(* a number or boolean, s the characters of a string, o the properties of  *)
(* an object and a the elements of an array.                               *)

NoProps == [k \in {} |-> 0]

JVal(t, n, s, o, a) == [t |-> t, n |-> n, s |-> s, o |-> o, a |-> a]
Num(n) == JVal("number", n, <<>>, NoProps, <<>>)
NaN == JVal("nan", 0, <<>>, NoProps, <<>>)
Str(s) == JVal("string", 0, s, NoProps, <<>>)
Bool(b) == JVal("boolean", IF b THEN 1 ELSE 0, <<>>, NoProps, <<>>)
Null == JVal("null", 0, <<>>, NoProps, <<>>)
Undefined == JVal("undefined", 0, <<>>, NoProps, <<>>)
Obj(o) == JVal("object", 0, <<>>, o, <<>>)
Arr(a) == JVal("array", 0, <<>>, NoProps, a)

(* obj.key: the property, or undefined when the object has none.           *)
Prop(v, k) == IF v.t = "object" /\ k \in DOMAIN v.o THEN v.o[k] ELSE Undefined

(* typeof v === 'number' (NaN is a number too).                            *)
TypeofNumber(v) == v.t \in {"number", "nan"}

(* typeof v === 'object' (null and arrays included).                       *)
TypeofObject(v) == v.t \in {"object", "array", "null"}

(* ToBoolean(v).                                                           *)
Truthy(v) ==
    CASE v.t = "number" -> v.n # 0
      [] v.t = "nan" -> FALSE
      [] v.t = "string" -> v.s # <<>>
      [] v.t = "boolean" -> v.n = 1
      [] v.t \in {"null", "undefined"} -> FALSE
      [] OTHER -> TRUE

DigitChars == <<"0", "1", "2", "3", "4", "5", "6", "7", "8", "9">>
DigitSet == {DigitChars[i] : i \in 1..10}
DigitVal(c) == (CHOOSE i \in 1..10 : DigitChars[i] = c) - 1

RECURSIVE NatToStr(_)
NatToStr(n) ==
    IF n < 10 THEN <<DigitChars[n + 1]>>
    ELSE NatToStr(n \div 10) \o <<DigitChars[(n % 10) + 1]>>

RECURSIVE DigitsToNat(_)
DigitsToNat(s) ==
    IF s = <<>> THEN 0
    ELSE DigitsToNat(SubSeq(s, 1, Len(s) - 1)) * 10 + DigitVal(s[Len(s)])

IsDigits(s) == Len(s) > 0 /\ \A i \in 1..Len(s) : s[i] \in DigitSet
HasSign(s) == Len(s) > 0 /\ s[1] \in {"+", "-"}
Unsigned(s) == IF HasSign(s) THEN Tail(s) ELSE s
SignOf(s) == IF Len(s) > 0 /\ s[1] = "-" THEN -1 ELSE 1

(* String(v) for the values the crop route meets.                          *)
ToStringJS(v) ==
    CASE v.t = "number" ->
            IF v.n < 0 THEN <<"-">> \o NatToStr(-v.n) ELSE NatToStr(v.n)
      [] v.t = "string" -> v.s
      [] v.t = "nan" -> <<"N", "a", "N">>
      [] v.t = "boolean" -> IF v.n = 1 THEN <<"t", "r", "u", "e">>
                                        ELSE <<"f", "a", "l", "s", "e">>
      [] v.t = "null" -> <<"n", "u", "l", "l">>
      [] OTHER -> <<"u", "n", "d", "e", "f", "i", "n", "e", "d">>

(* Number(v): a string converts when the whole of it is a numeric literal. *)
ToNumber(v) ==
    CASE v.t = "number" -> v
      [] v.t = "string" ->
            IF v.s = <<>> THEN Num(0)
            ELSE IF IsDigits(Unsigned(v.s))
                 THEN Num(SignOf(v.s) * DigitsToNat(Unsigned(v.s)))
                 ELSE NaN
      [] v.t = "boolean" -> Num(v.n)
      [] v.t = "null" -> Num(0)
      [] OTHER -> NaN

(* a + b: concatenation as soon as one operand is a string.                *)
JsAdd(a, b) ==
    IF a.t = "string" \/ b.t = "string"
    THEN Str(ToStringJS(a) \o ToStringJS(b))
    ELSE LET x == ToNumber(a)
             y == ToNumber(b)
         IN  IF x.t = "nan" \/ y.t = "nan" THEN NaN ELSE Num(x.n + y.n)

(* a < b and a > b with a number on one side: false when either is NaN.    *)
JsLt(a, b) ==
    LET x == ToNumber(a)
        y == ToNumber(b)
    IN  x.t = "number" /\ y.t = "number" /\ x.n < y.n

JsGt(a, b) == JsLt(b, a)

(* The longest numeric prefix of a string: [+-]?[0-9]+ .                   *)
RECURSIVE DigitPrefix(_)
DigitPrefix(s) ==
    IF s = <<>> \/ s[1] \notin DigitSet THEN <<>>
    ELSE <<s[1]>> \o DigitPrefix(Tail(s))

(* parseFloat(v) and parseInt(v) on integer literals.                      *)
ParseNumber(v) ==
    LET s == ToStringJS(v)
        d == DigitPrefix(Unsigned(s))
    IN  IF d = <<>> THEN NaN ELSE Num(SignOf(s) * DigitsToNat(d))

(* a || b                                                                  *)
JsOr(a, b) == IF Truthy(a) THEN a ELSE b


---------------------------------------------------------------------------
(* The Project document.                                                   *)

AllowedFields ==
    {"exposure", "contrast", "highlights", "shadows", "whites", "blacks",
     "temperature", "tint", "vibrance", "saturation", "texture", "clarity",
     "dehaze", "vignette"}

GrainKeys == {"amount", "size", "roughness"}

(* adjustmentSchema's defaults.                                            *)
DefaultGrain == [amount |-> 0, size |-> 50, roughness |-> 50]
DefaultCurves == <<[x |-> 0, y |-> 0], [x |-> 255, y |-> 255]>>
DefaultAdjustments ==
    [f \in AllowedFields |-> 0]
        @@ ("grain" :> DefaultGrain) @@ ("curves" :> DefaultCurves)

(* crop: null, or a cropSchema subdocument.                                *)
NoCrop == [isNull |-> TRUE]

(* Object.assign(target, source) and { ...target, ...source }.             *)
ObjectAssign(target, source) ==
    [k \in DOMAIN target \cup DOMAIN source |->
        IF k \in DOMAIN source THEN source[k] ELSE target[k]]

MathMax(a, b) == IF a > b THEN a ELSE b
MathMin(a, b) == IF a < b THEN a ELSE b

(* Clamp with min and max exchanged between the two calls.                 *)
ClampSwapped(value, min, max) == MathMax(MathMin(value, min), max)

(* Math.min(Math.max(value, min), max)                                     *)
Clamp(value, min, max) == MathMin(MathMax(value, min), max)

(* The min and max adjustmentSchema declares for a scalar path.            *)
SchemaMin(key) == IF key = "exposure" THEN ExposureMin ELSE ScalarMin
SchemaMax(key) == IF key = "exposure" THEN ExposureMax ELSE ScalarMax

(* addHistory keeping the first HistoryCap entries: slice(0, 50).          *)
addHistoryKeepOldest(doc, action, changes, id, date) ==
    LET pushed == Append(doc.history,
                         [_id |-> id, action |-> action,
                          changes |-> changes, timestamp |-> date])
        kept == IF Len(pushed) > HistoryCap
                THEN SubSeq(pushed, 1, HistoryCap)
                ELSE pushed
    IN  [doc EXCEPT !.history = kept,
                    !.lastEdited = date,
                    !.version = @ + 1]

(* addHistory without `this.version += 1`.                                 *)
addHistoryNoVersion(doc, action, changes, id, date) ==
    LET pushed == Append(doc.history,
                         [_id |-> id, action |-> action,
                          changes |-> changes, timestamp |-> date])
        kept == IF Len(pushed) > HistoryCap
                THEN SubSeq(pushed, Len(pushed) - HistoryCap + 1, Len(pushed))
                ELSE pushed
    IN  [doc EXCEPT !.history = kept,
                    !.lastEdited = date]

(* addHistory stamping the retained entries with the new date as well.     *)
addHistoryRestamp(doc, action, changes, id, date) ==
    LET pushed == Append(doc.history,
                         [_id |-> id, action |-> action,
                          changes |-> changes, timestamp |-> date])
        kept == IF Len(pushed) > HistoryCap
                THEN SubSeq(pushed, Len(pushed) - HistoryCap + 1, Len(pushed))
                ELSE pushed
    IN  [doc EXCEPT !.history = [i \in 1..Len(kept) |->
                                    [kept[i] EXCEPT !.timestamp = date]],
                    !.lastEdited = date,
                    !.version = @ + 1]

(* projectSchema.methods.addHistory: push, keep the last HistoryCap,       *)
(* stamp lastEdited and bump the version.                                  *)
addHistory(doc, action, changes, id, date) ==
    LET pushed == Append(doc.history,
                         [_id |-> id, action |-> action,
                          changes |-> changes, timestamp |-> date])
        kept == IF Len(pushed) > HistoryCap
                THEN SubSeq(pushed, Len(pushed) - HistoryCap + 1, Len(pushed))
                ELSE pushed
    IN  [doc EXCEPT !.history = kept,
                    !.lastEdited = date,
                    !.version = @ + 1]

(* projectSchema.methods.applyAdjustments                                  *)
applyAdjustments(doc, newAdjustments, id, date) ==
    LET oldAdjustments == doc.adjustments
        assigned == [doc EXCEPT
                        !.adjustments = ObjectAssign(@, newAdjustments)]
    IN  addHistory(assigned, "adjust",
                   [old |-> oldAdjustments, new |-> newAdjustments], id, date)

(* projectSchema.methods.applyCrop                                         *)
applyCrop(doc, cropData, id, date) ==
    LET oldCrop == doc.crop
        assigned == [doc EXCEPT !.crop = cropData]
    IN  addHistory(assigned, "crop",
                   [old |-> oldCrop, new |-> cropData], id, date)

(* resetEdits taking its snapshot after clearing instead of before.        *)
resetEditsSnapshotAfter(doc, id, date) ==
    LET cleared == [doc EXCEPT !.adjustments = DefaultAdjustments,
                               !.crop = NoCrop]
        oldState == [adjustments |-> cleared.adjustments, crop |-> cleared.crop]
    IN  addHistory(cleared, "reset", [old |-> oldState], id, date)

(* projectSchema.methods.resetEdits: `adjustments = {}` is cast by the     *)
(* schema to a subdocument holding every default.                          *)
resetEdits(doc, id, date) ==
    LET oldState == [adjustments |-> doc.adjustments, crop |-> doc.crop]
        cleared == [doc EXCEPT !.adjustments = DefaultAdjustments,
                               !.crop = NoCrop]
    IN  addHistory(cleared, "reset", [old |-> oldState], id, date)

(* The validators the schemas declare, run by save().                      *)
AdjustmentsValid(adj) ==
    /\ \A f \in AllowedFields : adj[f] >= SchemaMin(f) /\ adj[f] <= SchemaMax(f)
    /\ \A g \in GrainKeys : adj.grain[g] >= GrainMin /\ adj.grain[g] <= GrainMax

CropValid(crop) ==
    \/ crop = NoCrop
    \/ crop.rotation >= RotationMin /\ crop.rotation <= RotationMax

SchemaValid(doc) ==
    /\ AdjustmentsValid(doc.adjustments)
    /\ CropValid(doc.crop)
    /\ doc.version >= InitialVersion

---------------------------------------------------------------------------
(* PUT /api/projects/:id/adjustments                                       *)

(* body('adjustments').isObject()                                          *)
IsObject(v) == v.t = "object"

(* `let min = -100, max = 100; if (key === 'exposure') { min = -5; max = 5 }` *)
RangeMin(key) == IF key = "exposure" THEN ExposureMin ELSE ScalarMin
RangeMax(key) == IF key = "exposure" THEN ExposureMax ELSE ScalarMax

(* The loop without its typeof value === 'number' test: Math.max converts  *)
(* what it is given.                                                       *)
ValidScalarsAnyType(adjustments) ==
    [key \in {k \in DOMAIN adjustments.o : k \in AllowedFields} |->
        Clamp(ToNumber(adjustments.o[key]).n, RangeMin(key), RangeMax(key))]

(* The loop over Object.entries(adjustments): allowed numeric fields,      *)
(* clamped to the field's range.                                           *)
ValidScalars(adjustments) ==
    [key \in {k \in DOMAIN adjustments.o :
                 k \in AllowedFields /\ TypeofNumber(adjustments.o[k])} |->
        Clamp(adjustments.o[key].n, RangeMin(key), RangeMax(key))]

(* The grain block merging over the schema defaults, not the stored grain. *)
ValidGrainOverDefaults(adjustments, stored) ==
    LET grain == Prop(adjustments, "grain")
        grainAdjustments ==
            [g \in {k \in GrainKeys : TypeofNumber(Prop(grain, k))} |->
                Clamp(Prop(grain, g).n, GrainMin, GrainMax)]
    IN  IF Truthy(grain) /\ TypeofObject(grain)
           /\ DOMAIN grainAdjustments # {}
        THEN "grain" :> ObjectAssign(DefaultGrain, grainAdjustments)
        ELSE NoProps

(* The grain block: numeric sub-fields clamped to [0,100] and merged       *)
(* over the stored grain; nothing when no sub-field is numeric.            *)
ValidGrain(adjustments, stored) ==
    LET grain == Prop(adjustments, "grain")
        grainAdjustments ==
            [g \in {k \in GrainKeys : TypeofNumber(Prop(grain, k))} |->
                Clamp(Prop(grain, g).n, GrainMin, GrainMax)]
    IN  IF Truthy(grain) /\ TypeofObject(grain)
           /\ DOMAIN grainAdjustments # {}
        THEN "grain" :> ObjectAssign(stored.grain, grainAdjustments)
        ELSE NoProps

(* The point test without its upper limits.                                *)
ValidPointNoUpperLimit(point) ==
    /\ Truthy(point)
    /\ TypeofNumber(Prop(point, "x"))
    /\ TypeofNumber(Prop(point, "y"))
    /\ Prop(point, "x").n >= CurveMin
    /\ Prop(point, "y").n >= CurveMin

(* The filter over adjustments.curves.                                     *)
ValidPoint(point) ==
    /\ Truthy(point)
    /\ TypeofNumber(Prop(point, "x"))
    /\ TypeofNumber(Prop(point, "y"))
    /\ Prop(point, "x").n >= CurveMin /\ Prop(point, "x").n <= CurveMax
    /\ Prop(point, "y").n >= CurveMin /\ Prop(point, "y").n <= CurveMax

RECURSIVE Filter(_)
Filter(points) ==
    IF points = <<>> THEN <<>>
    ELSE (IF ValidPoint(Head(points))
          THEN <<[x |-> Prop(Head(points), "x").n,
                  y |-> Prop(Head(points), "y").n]>>
          ELSE <<>>) \o Filter(Tail(points))

ValidCurves(adjustments) ==
    LET curves == Prop(adjustments, "curves")
        validCurves == Filter(curves.a)
    IN  IF Truthy(curves) /\ curves.t = "array" /\ Len(validCurves) >= 2
        THEN "curves" :> validCurves
        ELSE NoProps

(* validAdjustments as handed to project.applyAdjustments.                 *)
ValidAdjustments(adjustments, stored) ==
    ObjectAssign(ObjectAssign(ValidScalars(adjustments),
                              ValidGrain(adjustments, stored)),
                 ValidCurves(adjustments))

---------------------------------------------------------------------------
(* PUT /api/projects/:id/crop                                              *)

(* express-validator hands validator.js the string form of a field:        *)
(* '' for a missing or null one.                                           *)
FieldString(v) == IF v.t \in {"undefined", "null", "nan"} THEN <<>> ELSE ToStringJS(v)

(* isNumeric(): an optional sign, then digits.                             *)
IsNumeric(v) == IsDigits(Unsigned(FieldString(v)))

(* isInt({ min }): an optional sign, then digits, and str >= min.          *)
IsInt(v, min) ==
    /\ IsDigits(Unsigned(FieldString(v)))
    /\ ~JsLt(Str(FieldString(v)), Num(min))

(* isFloat({ min, max }) on integer literals.                              *)
IsFloat(v, min, max) ==
    /\ IsDigits(Unsigned(FieldString(v)))
    /\ ParseNumber(v).n >= min
    /\ ParseNumber(v).n <= max

(* isBoolean(): one of 'true', 'false', '1', '0'.                          *)
IsBoolean(v) ==
    FieldString(v) \in {<<"t", "r", "u", "e">>, <<"f", "a", "l", "s", "e">>,
                        <<"1">>, <<"0">>}

Optional(v, ok) == v.t = "undefined" \/ ok

(* The validation chain of the crop route.                                 *)
CropValidators(crop) ==
    /\ IsObject(crop)
    /\ IsNumeric(Prop(crop, "x"))
    /\ IsNumeric(Prop(crop, "y"))
    /\ IsInt(Prop(crop, "width"), 1)
    /\ IsInt(Prop(crop, "height"), 1)
    /\ Optional(Prop(crop, "rotation"),
                IsFloat(Prop(crop, "rotation"), RotationMin, RotationMax))
    /\ Optional(Prop(crop, "flipHorizontal"), IsBoolean(Prop(crop, "flipHorizontal")))
    /\ Optional(Prop(crop, "flipVertical"), IsBoolean(Prop(crop, "flipVertical")))

(* The bounds test of the route, on the body's values as they came.        *)
CropOutOfBounds(crop, imageDimensions) ==
    \/ JsLt(Prop(crop, "x"), Num(0))
    \/ JsLt(Prop(crop, "y"), Num(0))
    \/ JsGt(JsAdd(Prop(crop, "x"), Prop(crop, "width")), Num(imageDimensions.width))
    \/ JsGt(JsAdd(Prop(crop, "y"), Prop(crop, "height")), Num(imageDimensions.height))

(* The object handed to project.applyCrop.                                 *)
CropData(crop) ==
    [x |-> ParseNumber(Prop(crop, "x")),
     y |-> ParseNumber(Prop(crop, "y")),
     width |-> ParseNumber(Prop(crop, "width")),
     height |-> ParseNumber(Prop(crop, "height")),
     rotation |-> JsOr(ParseNumber(Prop(crop, "rotation")), Num(0)),
     flipHorizontal |-> JsOr(Prop(crop, "flipHorizontal"), Bool(FALSE)),
     flipVertical |-> JsOr(Prop(crop, "flipVertical"), Bool(FALSE)),
     aspectRatio |-> JsOr(Prop(crop, "aspectRatio"), Str(<<"f", "r", "e", "e">>))]

(* cropSchema's casts: Number, Boolean and String paths.                   *)
CastableCrop(data) ==
    /\ \A k \in {"x", "y", "width", "height", "rotation"} : data[k].t = "number"
    /\ data.flipHorizontal.t = "boolean"
    /\ data.flipVertical.t = "boolean"

CastCrop(data) ==
    [x |-> data.x.n, y |-> data.y.n,
     width |-> data.width.n, height |-> data.height.n,
     rotation |-> data.rotation.n,
     flipHorizontal |-> data.flipHorizontal.n = 1,
     flipVertical |-> data.flipVertical.n = 1,
     aspectRatio |-> ToStringJS(data.aspectRatio)]

---------------------------------------------------------------------------
(* Requests and responses.                                                 *)

Owner == "alice"

Request(op, user, body) == [op |-> op, user |-> user, body |-> body]

(* Project.findOne without the user in its filter.                         *)
FindOneAnyUser(store, user) == store # [isNull |-> TRUE]

(* The projects collection holds at most one document; NoProject is the   *)
(* empty collection.                                                       *)
NoProject == [isNull |-> TRUE]

(* Project.findOne({ _id, user }): the project, for its owner only.        *)
FindOne(store, user) == store # NoProject /\ store.user = user

(* req.file as multer leaves it, and what sharp reads from it.             *)
NoFile == [isNull |-> TRUE]
File(name, ext, mimetype, size) ==
    [originalname |-> name \o ext,
     name |-> name,
     filename |-> <<"i", "m", "a", "g", "e", "-", "1">> \o ext,
     path |-> <<"u", "p", "l", "o", "a", "d", "s", "/",
                "i", "m", "a", "g", "e", "-", "1">> \o ext,
     mimetype |-> mimetype,
     size |-> size]
NoMetadata == [isNull |-> TRUE]
Metadata(width, height) ==
    [width |-> width, height |-> height, format |-> "jpeg",
     space |-> "srgb", orientation |-> 1]

TestFile == File(<<"I", "M", "G">>, <<".", "j", "p", "g">>, "image/jpeg", 3)
TestMetadata == Metadata(ImgW, ImgH)

(* generateImageVariants: the two relative paths, or nulls when sharp      *)
(* failed.                                                                 *)
Variants(file, ok) ==
    IF ok
    THEN [thumbnailPath |-> Str(<<"t", "/">> \o file.filename),
          previewPath |-> Str(<<"p", "/">> \o file.filename)]
    ELSE [thumbnailPath |-> Null, previewPath |-> Null]

(* title || path.parse(req.file.originalname).name                         *)
UploadTitle(body, file) ==
    IF Truthy(Prop(body, "title")) THEN Prop(body, "title").s ELSE file.name

(* The document `new Project({...})` builds in the upload route; the       *)
(* schema supplies adjustments, crop, starred, isPublic, lastEdited and     *)
(* version.                                                                *)
NewProject(file, metadata, body, variants, date) ==
    [title |-> UploadTitle(body, file),
     description |-> IF Truthy(Prop(body, "description"))
                     THEN Prop(body, "description").s ELSE <<>>,
     user |-> Owner,
     image |-> [originalFilename |-> file.originalname,
                filename |-> file.filename,
                path |-> file.path,
                mimeType |-> file.mimetype,
                size |-> file.size,
                dimensions |-> [width |-> metadata.width,
                                height |-> metadata.height],
                thumbnailPath |-> variants.thumbnailPath,
                previewPath |-> variants.previewPath,
                metadata |-> [colorSpace |-> metadata.space,
                              orientation |-> metadata.orientation]],
     adjustments |-> DefaultAdjustments,
     crop |-> NoCrop,
     history |-> <<>>,
     tags |-> <<>>,
     isPublic |-> FALSE,
     starred |-> FALSE,
     lastEdited |-> date,
     version |-> InitialVersion]

(* The upload route's document without its addHistory('upload', ...).      *)
UploadedWithoutHistory(file, metadata, body, id, date) ==
    NewProject(file, metadata, body, Variants(file, TRUE), date)

(* The upload route's document after its addHistory('upload', ...).        *)
Uploaded(file, metadata, body, id, date) ==
    addHistory(NewProject(file, metadata, body, Variants(file, TRUE), date),
               "upload",
               [filename |-> file.originalname, size |-> file.size,
                dimensions |-> metadata], id, date)

(* The User document's counters once `file` is the user's only upload.     *)
AccountAfter(file) == [storageUsed |-> file.size, storageLimit |-> StorageLimit]

(* What the adjustments route does to the document it found.               *)
AdjustedDoc(doc, adjustments, id, date) ==
    applyAdjustments(doc, ValidAdjustments(adjustments, doc.adjustments), id, date)

(* What the crop route does to the document it found.                      *)
CroppedDoc(doc, crop, id, date) ==
    applyCrop(doc, CastCrop(CropData(crop)), id, date)

(* A handler from its validators up to (not including) `await save()`:    *)
(* the response when it returns early, else status 0 and the document as   *)
(* the model methods left it.                                              *)
Early(status, error, doc) == [status |-> status, error |-> error, doc |-> doc, pushed |-> FALSE]
ToSave(doc) == [status |-> 0, error |-> "", doc |-> doc, pushed |-> TRUE]

HandleAdjustments(request, store, id, date) ==
    IF ~IsObject(request.body) THEN Early(400, "Validation failed", store)
    ELSE IF ~FindOne(store, request.user) THEN Early(404, "Project not found", store)
    ELSE ToSave(AdjustedDoc(store, request.body, id, date))

HandleCrop(request, store, id, date) ==
    IF ~CropValidators(request.body) THEN Early(400, "Validation failed", store)
    ELSE IF ~FindOne(store, request.user) THEN Early(404, "Project not found", store)
    ELSE IF CropOutOfBounds(request.body, store.image.dimensions)
         THEN Early(400, "Crop bounds exceed image dimensions", store)
    ELSE IF ~CastableCrop(CropData(request.body))
         THEN Early(500, "Server error updating crop", store)
    ELSE ToSave(CroppedDoc(store, request.body, id, date))

HandleReset(request, store, id, date) ==
    IF ~FindOne(store, request.user) THEN Early(404, "Project not found", store)
    ELSE ToSave(resetEdits(store, id, date))

Handle(request, store, id, date) ==
    CASE request.op = "adjustments" -> HandleAdjustments(request, store, id, date)
      [] request.op = "crop" -> HandleCrop(request, store, id, date)
      [] OTHER -> HandleReset(request, store, id, date)

(* project.save(): validates, then writes the paths the handler modified   *)
(* since `found` was read (a path set to an equal value is not modified):  *)
(* $set for adjustments keys, crop, version and lastEdited, $push for a    *)
(* pushed history entry, $set of the whole array once it was re-sliced.    *)
(* The write carries no condition on the stored version.                   *)
SavedAdjustments(stored, found, doc, op) ==
    IF op = "reset"
    THEN (IF doc.adjustments # found.adjustments THEN doc.adjustments ELSE stored.adjustments)
    ELSE [k \in DOMAIN stored.adjustments |->
            IF doc.adjustments[k] # found.adjustments[k]
            THEN doc.adjustments[k] ELSE stored.adjustments[k]]

SavedHistory(stored, found, doc) ==
    IF Len(found.history) + 1 > HistoryCap
    THEN doc.history
    ELSE stored.history \o <<doc.history[Len(doc.history)]>>

Save(stored, found, doc, op) ==
    [stored EXCEPT
        !.adjustments = SavedAdjustments(stored, found, doc, op),
        !.crop = IF doc.crop # found.crop THEN doc.crop ELSE @,
        !.history = SavedHistory(stored, found, doc),
        !.lastEdited = IF doc.lastEdited # found.lastEdited THEN doc.lastEdited ELSE @,
        !.version = doc.version]

-----------------------------------------------------------------------------------------------------------------------------------------------
(* Request bodies.                                                         *)

Point(x, y) == Obj("x" :> Num(x) @@ "y" :> Num(y))

TestFields == {"exposure", "contrast"}
TestValues == {-500, 3, 10, 150}

ScalarBodies == {Obj(f :> Num(v)) : f \in TestFields, v \in TestValues}

MixedBodies ==
    {Obj(NoProps),
     Obj("contrast" :> Num(150) @@ "foo" :> Num(3)),
     Obj("exposure" :> Str(<<"3">>) @@ "contrast" :> Num(40)),
     Obj("vignette" :> Null @@ "exposure" :> Num(-2)),
     Arr(<<>>)}

GrainBodies ==
    {Obj("grain" :> Obj("amount" :> Num(150))),
     Obj("grain" :> Obj("size" :> Num(-5) @@ "roughness" :> Num(30))),
     Obj("grain" :> Obj("amount" :> Str(<<"9">>) @@ "size" :> Num(20))
             @@ "tint" :> Num(-100)),
     Obj("grain" :> Num(5) @@ "dehaze" :> Num(7))}

CurveBodies ==
    {Obj("curves" :> Arr(<<Point(0, 0), Point(128, 200), Point(255, 255)>>)),
     Obj("curves" :> Arr(<<Point(0, 0), Point(300, 10), Point(128, 128),
                           Point(255, 255)>>)),
     Obj("curves" :> Arr(<<Point(0, 0)>>)),
     Obj("curves" :> Arr(<<Point(10, 10), Null,
                           Obj("x" :> Str(<<"5">>) @@ "y" :> Num(5))>>)
             @@ "contrast" :> Num(40)),
     Obj("curves" :> Str(<<"x">>))}

AdjustBodies == ScalarBodies \cup MixedBodies \cup GrainBodies \cup CurveBodies

AdjustSample ==
    {Obj("exposure" :> Num(10)),
     Obj("contrast" :> Num(-500) @@ "foo" :> Num(3)),
     Obj("grain" :> Obj("amount" :> Num(150))),
     Obj("curves" :> Arr(<<Point(0, 0), Point(128, 200), Point(255, 255)>>))}

Rect(x, y, width, height) ==
    "x" :> x @@ "y" :> y @@ "width" :> width @@ "height" :> height

CropXs == {Num(-1), Num(0), Num(5), Str(<<"-", "0">>)}
CropWidths == {Num(10), Num(ImgW), Num(ImgW + 10),
               Str(<<"+", "3", "0">>), Str(<<"1", "0">>)}
CropHeights == {Num(ImgH - 4), Num(ImgH - 3)}
CropRotations == {Num(90), Num(200)}

CropBodies ==
    {Obj(Rect(x, Num(0), w, Num(5))) : x \in CropXs, w \in CropWidths}
    \cup {Obj(Rect(Num(0), Num(4), Num(10), h)) : h \in CropHeights}
    \cup {Obj(Rect(Num(2), Num(1), Num(8), Num(4)) @@ "rotation" :> r
              @@ "flipHorizontal" :> Bool(TRUE)
              @@ "aspectRatio" :> Str(<<"2", ":", "1">>)) : r \in CropRotations}
    \cup {Obj("x" :> Num(0) @@ "y" :> Num(0) @@ "width" :> Num(5)), Null}

CropSample ==
    {Obj(Rect(Num(5), Num(0), Num(10), Num(5))),
     Obj(Rect(Num(5), Num(0), Num(ImgW), Num(5))),
     Obj(Rect(Num(2), Num(1), Num(8), Num(4)) @@ "rotation" :> Num(90)
             @@ "flipHorizontal" :> Bool(TRUE))}

Other == "bob"

RequestsOf(adjustBodies, cropBodies) ==
    {Request("adjustments", Owner, b) : b \in adjustBodies}
    \cup {Request("crop", Owner, b) : b \in cropBodies}
    \cup {Request("reset", Owner, Null)}

(* One request of each route by a user who does not own the project.       *)
ForeignRequests ==
    {Request("adjustments", Other, Obj("exposure" :> Num(3))),
     Request("crop", Other, Obj(Rect(Num(0), Num(0), Num(10), Num(5)))),
     Request("reset", Other, Null)}

Requests == RequestsOf(AdjustSample, CropSample) \cup ForeignRequests
AdjustRequests == RequestsOf(AdjustBodies, {Obj(Rect(Num(5), Num(0), Num(10), Num(5)))})
CropRequests == RequestsOf({Obj("exposure" :> Num(10))}, CropBodies)

---------------------------------------------------------------------------
(* The EditorPage component: the project it loaded, the filter it built    *)
(* for the canvas, and the blob it exported last.                          *)

Loading == [loaded |-> FALSE]
NoBlob == [isNull |-> TRUE]

(* One function of a CSS filter list, its argument as the fraction num/den *)
(* (a percentage has den 100, tenths of a degree den 10).                  *)
Stage(fn, num, den) == [fn |-> fn, num |-> num, den |-> den]

(* filters.join(' ') || 'none'                                             *)
Css(filters) == [none |-> filters = <<>>, functions |-> filters]

(* buildCSSFilters pushing the brightness function for exposure 0 too.     *)
buildCSSFiltersAlwaysExposure(adjustments) ==
    Css(<<Stage("brightness", 100 + adjustments.exposure * 20, 100)>>
        \o (IF adjustments.contrast # 0
            THEN <<Stage("contrast", 100 + adjustments.contrast, 100)>> ELSE <<>>)
        \o (IF adjustments.saturation # 0
            THEN <<Stage("saturate", 100 + adjustments.saturation, 100)>> ELSE <<>>)
        \o (IF adjustments.temperature # 0
            THEN <<Stage("hue-rotate", adjustments.temperature, 10)>> ELSE <<>>))

(* buildCSSFilters                                                         *)
buildCSSFilters(adjustments) ==
    Css((IF adjustments.exposure # 0
         THEN <<Stage("brightness", 100 + adjustments.exposure * 20, 100)>> ELSE <<>>)
        \o (IF adjustments.contrast # 0
            THEN <<Stage("contrast", 100 + adjustments.contrast, 100)>> ELSE <<>>)
        \o (IF adjustments.saturation # 0
            THEN <<Stage("saturate", 100 + adjustments.saturation, 100)>> ELSE <<>>)
        \o (IF adjustments.temperature # 0
            THEN <<Stage("hue-rotate", adjustments.temperature, 10)>> ELSE <<>>))

(* One grey pixel of the loaded image, as an 8-bit channel value.          *)
SourcePixel == 100

(* A CSS filter function applied to a grey channel value: brightness and   *)
(* contrast are linear transfers, saturate and hue-rotate leave grey as it *)
(* is.                                                                     *)
ApplyStage(stage, v) ==
    CASE stage.fn = "brightness" ->
            Clamp((v * stage.num) \div stage.den, 0, 255)
      [] stage.fn = "contrast" ->
            Clamp(((2 * v - 255) * stage.num + 255 * stage.den)
                      \div (2 * stage.den), 0, 255)
      [] OTHER -> v

RECURSIVE ApplyStages(_, _)
ApplyStages(functions, v) ==
    IF functions = <<>> THEN v
    ELSE ApplyStages(Tail(functions), ApplyStage(Head(functions), v))

(* ctx.filter = filters; ctx.drawImage(image, ...)                         *)
DrawImage(css, v) == IF css.none THEN v ELSE ApplyStages(css.functions, v)

(* What the render effect leaves on the canvas for the project in state.   *)
Rendered(state) ==
    [state EXCEPT
        !.filter = buildCSSFilters(state.adjustments),
        !.canvas = DrawImage(buildCSSFilters(state.adjustments), SourcePixel)]

(* setProject(projectData) with the project of GET /api/projects/:id, and  *)
(* the render effect that follows.                                         *)
Loaded(project) ==
    Rendered([loaded |-> TRUE,
              title |-> project.title,
              image |-> [url |-> project.image.filename,
                         dimensions |-> project.image.dimensions],
              adjustments |-> project.adjustments,
              crop |-> project.crop,
              hasUnsavedChanges |-> FALSE,
              filter |-> Css(<<>>),
              canvas |-> SourcePixel,
              exported |-> NoBlob])

(* handleAdjustmentsChange: the numeric values of the patch over a copy of *)
(* the adjustments.                                                        *)
handleAdjustmentsChange(state, newAdjustments) ==
    LET numeric == {k \in DOMAIN newAdjustments : TypeofNumber(newAdjustments[k])}
        updatedAdjustments ==
            [k \in DOMAIN state.adjustments \cup numeric |->
                IF k \in numeric THEN newAdjustments[k].n ELSE state.adjustments[k]]
    IN  Rendered([state EXCEPT !.adjustments = updatedAdjustments,
                               !.hasUnsavedChanges = TRUE])

(* handleCropChange                                                        *)
handleCropChange(state, newCrop) ==
    Rendered([state EXCEPT !.crop = newCrop, !.hasUnsavedChanges = TRUE])

(* The bytes stored under the uploaded file's name.                        *)
FileBytes(url) == [file |-> url, filter |-> Css(<<>>), crop |-> NoCrop]

(* handleExport: fetch(project.image.url), then response.blob().           *)
handleExport(state, settings) == FileBytes(state.image.url)

ExportFormats == {"jpeg", "png", "tiff", "webp"}
Extension(format) ==
    CASE format = "jpeg" -> <<".", "j", "p", "g">>
      [] format = "png" -> <<".", "p", "n", "g">>
      [] format = "tiff" -> <<".", "t", "i", "f", "f">>
      [] format = "webp" -> <<".", "w", "e", "b", "p">>
      [] OTHER -> <<".", "j", "p", "g">>

(* exportSingle: the blob of onExport saved under title + extension.       *)
exportSingle(state, settings) ==
    [state EXCEPT !.exported =
        [blob |-> handleExport(state, settings),
         filename |-> state.title \o Extension(settings.format)]]

(* handleSave: it logs the project and clears the flag; no request is      *)
(* made.                                                                   *)
handleSave(state) ==
    IF ~state.hasUnsavedChanges THEN state
    ELSE [state EXCEPT !.hasUnsavedChanges = FALSE]

(* handleApplyCrop: with a crop set, it logs the crop and clears the flag; *)
(* no request is made.                                                     *)
handleApplyCrop(state) ==
    IF state.crop = NoCrop THEN state
    ELSE [state EXCEPT !.hasUnsavedChanges = FALSE]

(* The Save button.                                                        *)
SaveProject ==
    /\ editor.loaded
    /\ editor' = handleSave(editor)
    /\ UNCHANGED <<db, now, nextId, steps, req, res, inflight, account, cropTool, utils>>

(* The Apply Crop button of the crop tool.                                 *)
ApplyCrop ==
    /\ editor.loaded
    /\ editor' = handleApplyCrop(editor)
    /\ UNCHANGED <<db, now, nextId, steps, req, res, inflight, account, cropTool, utils>>

(* The project has been fetched and set.                                   *)
LoadProject ==
    /\ ~editor.loaded
    /\ db # NoProject
    /\ editor' = Loaded(db)
    /\ UNCHANGED <<db, now, nextId, steps, req, res, inflight, account, cropTool, utils>>

EditorPatches ==
    {"exposure" :> Num(e) : e \in {-5, -1, 0, 1, 5}}
    \cup {"contrast" :> Num(c) : c \in {-100, 0, 50}}
    \cup {"saturation" :> Num(s) : s \in {0, 30}}
    \cup {"temperature" :> Num(t) : t \in {0, 40}}
    \cup {"highlights" :> Num(20) @@ "grain" :> Obj("amount" :> Num(10))}

(* A slider of the light or colour controls was moved.                     *)
ChangeAdjustments ==
    /\ editor.loaded
    /\ \E patch \in EditorPatches :
          editor' = handleAdjustmentsChange(editor, patch)
    /\ UNCHANGED <<db, now, nextId, steps, req, res, inflight, account, cropTool, utils>>

EditorCrops ==
    {[x |-> 2, y |-> 1, width |-> 8, height |-> 4,
      rotation |-> 0, flipX |-> FALSE, flipY |-> FALSE]}

(* The crop tool reported a crop rectangle.                                *)
ChangeCrop ==
    /\ editor.loaded
    /\ \E crop \in EditorCrops : editor' = handleCropChange(editor, crop)
    /\ UNCHANGED <<db, now, nextId, steps, req, res, inflight, account, cropTool, utils>>

(* Export of the open project from the export dialog.                      *)
Export ==
    /\ editor.loaded
    /\ \E format \in ExportFormats :
          editor' = exportSingle(editor, [format |-> format])
    /\ UNCHANGED <<db, now, nextId, steps, req, res, inflight, account, cropTool, utils>>

-----------------------------------------------------------------------------
(* The CropTool component: its rotation and flip state, and the fabric     *)
(* image object once FabricImage.fromURL has resolved.                     *)

NoImage == [isNull |-> TRUE]
Mounted == [rotation |-> 0, flipX |-> FALSE, flipY |-> FALSE,
            aspectRatio |-> "free", image |-> NoImage]

(* The image object as the canvas effect adds it.                          *)
FabricImage == [angle |-> 0, flipX |-> FALSE, flipY |-> FALSE]

(* a % n of JavaScript: the sign of the dividend.                          *)
JsRem(a, n) == IF a >= 0 THEN a % n ELSE -((-a) % n)

(* handleRotate                                                            *)
handleRotate(tool, degrees) ==
    LET newRotation == JsRem(tool.rotation + degrees, 360)
    IN  [tool EXCEPT !.rotation = newRotation,
                     !.image = IF @ = NoImage THEN @
                               ELSE [@ EXCEPT !.angle = newRotation]]

(* handleFlip: the state flag inverted, and the image object's flag set to *)
(* the inverted state flag.                                                *)
handleFlip(tool, axis) ==
    IF axis = "x"
    THEN [tool EXCEPT !.flipX = ~tool.flipX,
                      !.image = IF @ = NoImage THEN @
                                ELSE [@ EXCEPT !.flipX = ~tool.flipX]]
    ELSE [tool EXCEPT !.flipY = ~tool.flipY,
                      !.image = IF @ = NoImage THEN @
                                ELSE [@ EXCEPT !.flipY = ~tool.flipY]]

(* resetCrop                                                               *)
resetCrop(tool) ==
    [tool EXCEPT !.rotation = 0, !.flipX = FALSE, !.flipY = FALSE,
                 !.aspectRatio = "free",
                 !.image = IF @ = NoImage THEN @
                           ELSE [@ EXCEPT !.angle = 0, !.flipX = FALSE,
                                          !.flipY = FALSE]]

(* FabricImage.fromURL(imageUrl) resolved: the image object exists.        *)
ImageLoaded ==
    /\ cropTool.image = NoImage
    /\ cropTool' = [cropTool EXCEPT !.image = FabricImage]
    /\ UNCHANGED <<db, now, nextId, steps, req, res, inflight, account, editor, utils>>

(* The rotate-left and rotate-right buttons.                               *)
ClickRotate ==
    /\ \E degrees \in {-90, 90} : cropTool' = handleRotate(cropTool, degrees)
    /\ UNCHANGED <<db, now, nextId, steps, req, res, inflight, account, editor, utils>>

(* The flip-horizontal and flip-vertical buttons.                          *)
ClickFlip ==
    /\ \E axis \in {"x", "y"} : cropTool' = handleFlip(cropTool, axis)
    /\ UNCHANGED <<db, now, nextId, steps, req, res, inflight, account, editor, utils>>

(* The reset button.                                                       *)
ClickReset ==
    /\ cropTool' = resetCrop(cropTool)
    /\ UNCHANGED <<db, now, nextId, steps, req, res, inflight, account, editor, utils>>

-----------------------------------------------------------------------------
(* The handlers, each run to its response without another request in       *)
(* between.                                                                *)

Slots == {1, 2}
Idle == [pc |-> "idle"]

Serve(request) ==
    /\ steps < MaxSteps
    /\ \E h \in {Handle(request, db, nextId, now)} :
        /\ steps' = steps + 1
        /\ req' = request
        /\ nextId' = IF h.pushed THEN nextId + 1 ELSE nextId
        /\ IF ~h.pushed
           THEN /\ res' = [status |-> h.status, error |-> h.error]
                /\ db' = db
           ELSE IF ~SchemaValid(h.doc)
           THEN /\ res' = [status |-> 500, error |-> "Server error"]
                /\ db' = db
           ELSE /\ res' = [status |-> 200, error |-> ""]
                /\ db' = Save(db, db, h.doc, request.op)
        /\ UNCHANGED <<now, inflight, account, editor, cropTool, utils>>

PutAdjustments(R) == \E r \in R : r.op = "adjustments" /\ Serve(r)
PutCrop(R) == \E r \in R : r.op = "crop" /\ Serve(r)
PostReset(R) == \E r \in R : r.op = "reset" /\ Serve(r)

(* Array.prototype.sort with the comparator                                *)
(* (a, b) => new Date(b.timestamp) - new Date(a.timestamp): a stable sort  *)
(* by descending timestamp.                                                *)
RECURSIVE SortByTimestamp(_)
SortByTimestamp(history) ==
    IF history = <<>> THEN <<>>
    ELSE LET latest == CHOOSE t \in {history[i].timestamp : i \in 1..Len(history)} :
                          \A i \in 1..Len(history) : history[i].timestamp <= t
             IsLatest(entry) == entry.timestamp = latest
             IsEarlier(entry) == entry.timestamp # latest
         IN  SelectSeq(history, IsLatest)
                 \o SortByTimestamp(SelectSeq(history, IsEarlier))

(* GET /api/projects/:id/history: reads the project and answers; it        *)
(* writes nothing, so it is not counted among the edits in `steps`.        *)
GetHistory ==
    /\ steps < MaxSteps
    /\ \E user \in {Owner, Other} :
        /\ req' = Request("history", user, Null)
        /\ res' = IF ~FindOne(db, user)
                  THEN [status |-> 404, error |-> "Project not found"]
                  ELSE [status |-> 200, error |-> "",
                        history |-> SortByTimestamp(db.history)]
    /\ UNCHANGED <<db, now, nextId, steps, inflight, account, editor, cropTool, utils>>

(* Time passing between two requests.                                      *)
Tick ==
    /\ now < MaxClock
    /\ steps < MaxSteps
    /\ now' = now + 1
    /\ UNCHANGED <<db, nextId, steps, req, res, inflight, account, editor, cropTool, utils>>

-----------------------------------------------------------------------------
(* Client: utils/performance.ts.                                           *)

(* ImageCache.  A Map is the sequence of its entries in insertion order;   *)
(* an image is identified by the url it was loaded from.                   *)
CacheMaxSize == 2
Urls == {"a.jpg", "b.jpg", "c.jpg"}

MapHas(map, key) == \E i \in 1..Len(map) : map[i].key = key
MapSet(map, key, value) ==
    IF MapHas(map, key)
    THEN [i \in 1..Len(map) |->
             IF map[i].key = key THEN [key |-> key, value |-> value] ELSE map[i]]
    ELSE Append(map, [key |-> key, value |-> value])
MapDelete(map, key) == SelectSeq(map, LAMBDA entry : entry.key # key)

NewImageCache(maxSize) ==
    [cache |-> <<>>, maxSize |-> maxSize, accessTimes |-> <<>>]

get(this, url, dateNow) ==
    IF MapHas(this.cache, url)
    THEN [this EXCEPT !.accessTimes = MapSet(@, url, dateNow)]
    ELSE this

(* The loop of evictLRU from entry i on: the key it ends with.             *)
RECURSIVE OldestKey(_, _, _, _)
OldestKey(entries, i, oldestTime, oldestKey) ==
    IF i > Len(entries) THEN oldestKey
    ELSE IF entries[i].value < oldestTime
         THEN OldestKey(entries, i + 1, entries[i].value, entries[i].key)
         ELSE OldestKey(entries, i + 1, oldestTime, oldestKey)

evictLRU(this, dateNow) ==
    LET oldestKey == OldestKey(this.accessTimes, 1, dateNow, "")
    IN  IF oldestKey # ""
        THEN [this EXCEPT !.cache = MapDelete(@, oldestKey),
                          !.accessTimes = MapDelete(@, oldestKey)]
        ELSE this

set(this, url, dateNow) ==
    LET room == IF Len(this.cache) >= this.maxSize
                THEN evictLRU(this, dateNow)
                ELSE this
    IN  [room EXCEPT !.cache = MapSet(@, url, url),
                     !.accessTimes = MapSet(@, url, dateNow)]

clear(this) == [this EXCEPT !.cache = <<>>, !.accessTimes = <<>>]

size(this) == Len(this.cache)

CacheGet ==
    /\ \E url \in Urls : imageCache' = get(imageCache, url, now)
    /\ UNCHANGED <<server, pages, debounce, batch, dashboard, storage>>

CacheSet ==
    /\ \E url \in Urls : imageCache' = set(imageCache, url, now)
    /\ UNCHANGED <<server, pages, debounce, batch, dashboard, storage>>

CacheClear ==
    /\ imageCache' = clear(imageCache)
    /\ UNCHANGED <<server, pages, debounce, batch, dashboard, storage>>

(* useDebounce(callback, delay).  A timer is [id, due, args]: setTimeout    *)
(* registers it with due = Date.now() + delay, and it runs the callback     *)
(* with its args when the clock reaches `due` unless it was cleared.        *)
Delay == 2
MaxCalls == 3
MaxTime == 7
Args == {1, 2}

NoTimeout == 0

clearTimeout(timers, id) == {timer \in timers : timer.id # id}

(* The debounced function without its clearTimeout.                        *)
debouncedWithoutClear(hook, args, dateNow) ==
    LET id == hook.nextTimer
    IN  [hook EXCEPT
            !.timers = @ \cup {[id |-> id, due |-> dateNow + Delay, args |-> args]},
            !.timeoutRef = id,
            !.nextTimer = id + 1,
            !.log = Append(@, [event |-> "call", at |-> dateNow, args |-> args])]

(* The function useDebounce returns, called with args at dateNow.          *)
debounced(hook, args, dateNow) ==
    LET id == hook.nextTimer
        kept == IF hook.timeoutRef # NoTimeout
                THEN clearTimeout(hook.timers, hook.timeoutRef)
                ELSE hook.timers
    IN  [hook EXCEPT
            !.timers = kept \cup {[id |-> id, due |-> dateNow + Delay, args |-> args]},
            !.timeoutRef = id,
            !.nextTimer = id + 1,
            !.log = Append(@, [event |-> "call", at |-> dateNow, args |-> args])]

(* A due timer runs: () => callback(...args).                              *)
timeout(hook, timer, dateNow) ==
    [hook EXCEPT
        !.timers = @ \ {timer},
        !.log = Append(@, [event |-> "callback", at |-> dateNow, args |-> timer.args])]

NewDebounce == [timeoutRef |-> NoTimeout, timers |-> {}, nextTimer |-> 1, log |-> <<>>]

CallDebounced ==
    /\ debounce.nextTimer <= MaxCalls
    /\ \E args \in Args : debounce' = debounced(debounce, args, now)
    /\ UNCHANGED <<server, pages, imageCache, batch, dashboard, storage>>

RunTimeout ==
    /\ \E timer \in debounce.timers :
        /\ timer.due <= now
        /\ debounce' = timeout(debounce, timer, now)
    /\ UNCHANGED <<server, pages, imageCache, batch, dashboard, storage>>

(* Time passes, but not beyond the moment a pending timer is due.          *)
Elapse ==
    /\ now < MaxTime
    /\ \A timer \in debounce.timers : timer.due > now
    /\ now' = now + 1
    /\ UNCHANGED <<db, nextId, steps, req, res, inflight, account, pages, utils>>

(* processBatch(items, processor, batchSize).                              *)
MaxItems == 3
Items == {1, 2}
BatchSizes == -1..3
DefaultBatchSize == 5

Min(a, b) == IF a < b THEN a ELSE b
Max(a, b) == IF a > b THEN a ELSE b

(* Array.prototype.slice(start, end).                                      *)
slice(array, start, end) ==
    LET len == Len(array)
        from == IF start < 0 THEN Max(len + start, 0) ELSE Min(start, len)
        to == IF end < 0 THEN Max(len + end, 0) ELSE Min(end, len)
    IN  [k \in 1..Max(to - from, 0) |-> array[from + k]]

(* The processor: a function of the item whose promise resolves.           *)
processor(item) == item + 10

processBatch(items, batchSize) ==
    [items |-> items, batchSize |-> batchSize, i |-> 0, results |-> <<>>,
     turn |-> 0, resolved |-> FALSE]

(* One iteration of the for loop: a batch is sliced, processed, pushed,    *)
(* and the setTimeout(resolve, 0) awaited: `turn` is the parity of the     *)
(* event-loop turns the call has waited for.  An index below -MaxItems - 1 *)
(* is kept as -MaxItems - 1: from there on every slice is empty, as it is  *)
(* for every smaller index.                                                *)
BatchIteration(call) ==
    LET slab == slice(call.items, call.i, call.i + call.batchSize)
        batchResults == [k \in 1..Len(slab) |-> processor(slab[k])]
    IN  [call EXCEPT !.results = @ \o batchResults,
                     !.i = Max(@ + call.batchSize, -MaxItems - 1),
                     !.turn = 1 - @]

BatchLoop ==
    /\ ~batch.resolved
    /\ batch.i < Len(batch.items)
    /\ batch' = BatchIteration(batch)
    /\ UNCHANGED <<server, pages, imageCache, debounce, dashboard, storage>>

BatchReturn ==
    /\ ~batch.resolved
    /\ ~(batch.i < Len(batch.items))
    /\ batch' = [batch EXCEPT !.resolved = TRUE]
    /\ UNCHANGED <<server, pages, imageCache, debounce, dashboard, storage>>

ItemLists == UNION {[1..n -> Items] : n \in 0..MaxItems}

(* DashboardPage.handleFileUpload.  An upload entry is [id, status]; a     *)
(* call of the handler is at the await of one of its uploads or finished;  *)
(* a cleanup timer is pending from the end of a call until it runs.        *)
MaxBatches == 2
MaxFiles == 2

NotCalled == [phase |-> "none", ids |-> <<>>, k |-> 0]

DashboardPage ==
    [uploads |-> <<>>, projects |-> <<>>, nextUpload |-> 1,
     calls |-> [b \in 1..MaxBatches |-> NotCalled], timers |-> {}]

(* setUploads(prev => prev.map(u => u.id === id ? {...u, status} : u)).    *)
SetStatus(uploads, id, status) ==
    [i \in 1..Len(uploads) |->
        IF uploads[i].id = id THEN [uploads[i] EXCEPT !.status = status]
        ELSE uploads[i]]

(* The handler of call b from the top of loop iteration k on: the next     *)
(* upload is marked 'uploading' and awaited, or, after the last one, the   *)
(* cleanup timer is set.                                                   *)
Iterate(page, b, ids, k) ==
    IF k <= Len(ids)
    THEN [page EXCEPT
            !.uploads = SetStatus(@, ids[k], "uploading"),
            !.calls[b] = [phase |-> "awaiting", ids |-> ids, k |-> k]]
    ELSE [page EXCEPT
            !.calls[b] = [phase |-> "done", ids |-> ids, k |-> k],
            !.timers = @ \cup {b}]

handleFileUpload(page, b, files) ==
    LET ids == [i \in 1..files |-> page.nextUpload + i - 1]
        newUploads == [i \in 1..files |-> [id |-> ids[i], status |-> "pending"]]
        appended == [page EXCEPT !.uploads = @ \o newUploads,
                                 !.nextUpload = @ + files]
    IN  Iterate(appended, b, ids, 1)

(* uploadAPI.uploadImage settles for the awaited upload of call b.         *)
Settled(page, b, outcome) ==
    LET call == page.calls[b]
        id == call.ids[call.k]
        marked == [page EXCEPT
                     !.uploads = SetStatus(@, id, outcome),
                     !.projects = IF outcome = "success" THEN <<id>> \o @ ELSE @]
    IN  Iterate(marked, b, call.ids, call.k + 1)

(* The cleanup timer: prev.filter(u => u.status === 'uploading').          *)
Cleanup(page, b) ==
    [page EXCEPT
        !.uploads = SelectSeq(@, LAMBDA u : u.status = "uploading"),
        !.timers = @ \ {b}]

DropFiles ==
    /\ \E b \in 1..MaxBatches, files \in 1..MaxFiles :
        /\ dashboard.calls[b] = NotCalled
        /\ \A a \in 1..(b - 1) : dashboard.calls[a] # NotCalled
        /\ dashboard' = handleFileUpload(dashboard, b, files)
    /\ UNCHANGED <<server, pages, imageCache, debounce, batch, storage>>

UploadSettles ==
    /\ \E b \in 1..MaxBatches, outcome \in {"success", "error"} :
        /\ dashboard.calls[b].phase = "awaiting"
        /\ dashboard' = Settled(dashboard, b, outcome)
    /\ UNCHANGED <<server, pages, imageCache, debounce, batch, storage>>

CleanupTimeout ==
    /\ \E b \in dashboard.timers : dashboard' = Cleanup(dashboard, b)
    /\ UNCHANGED <<server, pages, imageCache, debounce, batch, storage>>

(* Server: routes/upload.js and DELETE /api/projects/:id, for one user     *)
(* with any number of projects.  A project is [id, size], the size of its  *)
(* image; its file on disk carries the same id.  An uploaded file is       *)
(* [id, size, ok], ok telling whether extractMetadata can read it.  The    *)
(* User document is `account`.                                             *)
MaxUploads == 2
FileSizes == {3, 5}

NoUpload == [phase |-> "idle", route |-> "none", files |-> <<>>, status |-> 0]

EmptyStorage ==
    [projects |-> {}, disk |-> {}, nextFile |-> 1, served |-> 0,
     uploads |-> [s \in Slots |-> NoUpload]]

FileIds(files) == {files[i].id : i \in 1..Len(files)}

RECURSIVE reduce(_, _)
reduce(files, sum) ==
    IF files = <<>> THEN sum ELSE reduce(Tail(files), sum + Head(files).size)

(* The projects the batch loop saves: one for each readable file.          *)
createdProjects(files) ==
    {[id |-> files[i].id, size |-> files[i].size] :
        i \in {i \in 1..Len(files) : files[i].ok}}

(* multer has written the files of a request to disk and the handler       *)
(* starts.                                                                 *)
Arrive(s, route, files) ==
    /\ storage.uploads[s].phase \in {"idle", "done"}
    /\ storage.served < MaxUploads
    /\ storage' = [storage EXCEPT
            !.disk = @ \cup FileIds(files),
            !.nextFile = @ + Len(files),
            !.served = @ + 1,
            !.uploads[s] = [phase |-> "check", route |-> route, files |-> files,
                            status |-> 0]]
    /\ UNCHANGED account

Finish(upload, status) == [upload EXCEPT !.phase = "done", !.status = status]

(* User.findById and the storage limit test; over the limit the files are  *)
(* unlinked and the answer is 413.                                         *)
CheckLimit(s) ==
    LET upload == storage.uploads[s]
        totalSize == reduce(upload.files, 0)
    IN  /\ upload.phase = "check"
        /\ IF account.storageUsed + totalSize > account.storageLimit
           THEN storage' = [storage EXCEPT
                    !.disk = @ \ FileIds(upload.files),
                    !.uploads[s] = Finish(upload, 413)]
           ELSE storage' = [storage EXCEPT !.uploads[s].phase = "save"]
        /\ UNCHANGED account

(* Metadata extraction and project.save().  The single route unlinks an    *)
(* unreadable file and answers 400; the batch route skips unreadable files *)
(* and answers 400 when no project was created.                            *)
SaveProjects(s) ==
    LET upload == storage.uploads[s]
        created == createdProjects(upload.files)
    IN  /\ upload.phase = "save"
        /\ IF upload.route = "single" /\ created = {}
           THEN storage' = [storage EXCEPT
                    !.disk = @ \ FileIds(upload.files),
                    !.uploads[s] = Finish(upload, 400)]
           ELSE IF created = {}
           THEN storage' = [storage EXCEPT !.uploads[s] = Finish(upload, 400)]
           ELSE storage' = [storage EXCEPT
                    !.projects = @ \cup created,
                    !.uploads[s].phase = "inc"]
        /\ UNCHANGED account

(* User.findByIdAndUpdate with $inc: the single route adds req.file.size,  *)
(* the batch route totalSize; then 201.                                    *)
IncStorageUsed(s) ==
    LET upload == storage.uploads[s]
    IN  /\ upload.phase = "inc"
        /\ account' = [account EXCEPT
                          !.storageUsed = @ + reduce(upload.files, 0)]
        /\ storage' = [storage EXCEPT !.uploads[s] = Finish(upload, 201)]

(* DELETE /api/projects/:id of one of the user's projects.                 *)
DeleteStored(project) ==
    /\ project \in storage.projects
    /\ storage' = [storage EXCEPT !.disk = @ \ {project.id},
                                  !.projects = @ \ {project}]
    /\ account' = [account EXCEPT !.storageUsed = @ - project.size]

UploadFiles(n) ==
    [1..n -> {[id |-> 0, size |-> bytes, ok |-> ok] :
                 bytes \in FileSizes, ok \in BOOLEAN}]

(* The files of a request, numbered from the next free id.                 *)
Numbered(files, first) ==
    [i \in 1..Len(files) |-> [files[i] EXCEPT !.id = first + i - 1]]

PostSingle ==
    /\ \E s \in Slots, files \in UploadFiles(1) :
            Arrive(s, "single", Numbered(files, storage.nextFile))
    /\ UNCHANGED <<db, now, nextId, steps, req, res, inflight, pages,
                   imageCache, debounce, batch, dashboard>>

PostBatch ==
    /\ \E s \in Slots, files \in UploadFiles(2) :
            Arrive(s, "batch", Numbered(files, storage.nextFile))
    /\ UNCHANGED <<db, now, nextId, steps, req, res, inflight, pages,
                   imageCache, debounce, batch, dashboard>>

UploadChecks ==
    /\ \E s \in Slots : CheckLimit(s)
    /\ UNCHANGED <<db, now, nextId, steps, req, res, inflight, pages,
                   imageCache, debounce, batch, dashboard>>

UploadSaves ==
    /\ \E s \in Slots : SaveProjects(s)
    /\ UNCHANGED <<db, now, nextId, steps, req, res, inflight, pages,
                   imageCache, debounce, batch, dashboard>>

UploadIncrements ==
    /\ \E s \in Slots : IncStorageUsed(s)
    /\ UNCHANGED <<db, now, nextId, steps, req, res, inflight, pages,
                   imageCache, debounce, batch, dashboard>>

DeleteAny ==
    /\ \E project \in storage.projects : DeleteStored(project)
    /\ UNCHANGED <<db, now, nextId, steps, req, res, inflight, pages,
                   imageCache, debounce, batch, dashboard>>

(* Everything but a processBatch call, before it is used.                  *)
InitIdle ==
    /\ imageCache = NewImageCache(CacheMaxSize)
    /\ debounce = NewDebounce
    /\ dashboard = DashboardPage
    /\ storage = EmptyStorage

InitUtils ==
    /\ InitIdle
    /\ batch = processBatch(<<>>, DefaultBatchSize)

NoRequest == Request("none", Owner, Null)
NoResponse == [status |-> 0, error |-> ""]

Init ==
    /\ db = Uploaded(TestFile, TestMetadata, Obj(NoProps), 1, 0)
    /\ now = 0
    /\ nextId = 2
    /\ steps = 0
    /\ req = NoRequest
    /\ res = NoResponse
    /\ inflight = [s \in Slots |-> Idle]
    /\ account = AccountAfter(TestFile)
    /\ editor = Loading
    /\ cropTool = Mounted
    /\ InitUtils

Next ==
    \/ PutAdjustments(Requests)
    \/ PutCrop(Requests)
    \/ PostReset(Requests)
    \/ GetHistory
    \/ Tick

Spec == Init /\ [][Next]_vars

(* The same handlers, exercised on every adjustments body.                 *)
NextAdjust ==
    \/ PutAdjustments(AdjustRequests)
    \/ PutCrop(AdjustRequests)
    \/ PostReset(AdjustRequests)
    \/ Tick

SpecAdjust == Init /\ [][NextAdjust]_vars

(* The same handlers, exercised on every crop body.                        *)
NextCrop ==
    \/ PutAdjustments(CropRequests)
    \/ PutCrop(CropRequests)
    \/ PostReset(CropRequests)
    \/ Tick

SpecCrop == Init /\ [][NextCrop]_vars

(* A project one entry short of a full history: the upload, then           *)
(* HistoryCap - 2 edits with an empty patch, all at one clock reading.     *)
Edited(doc, n) ==
    [doc EXCEPT
        !.history = @ \o [i \in 1..n |->
                            [_id |-> Len(doc.history) + i, action |-> "adjust",
                             changes |-> [old |-> doc.adjustments, new |-> NoProps],
                             timestamp |-> doc.lastEdited]],
        !.version = @ + n]

InitLedger ==
    /\ db = Edited(Uploaded(TestFile, TestMetadata, Obj(NoProps), 1, 0), HistoryCap - 2)
    /\ now = 0
    /\ nextId = HistoryCap
    /\ steps = 0
    /\ req = NoRequest
    /\ res = NoResponse
    /\ inflight = [s \in Slots |-> Idle]
    /\ account = AccountAfter(TestFile)
    /\ editor = Loading
    /\ cropTool = Mounted
    /\ InitUtils

SpecLedger == InitLedger /\ [][Next]_vars

---------------------------------------------------------------------------
(* POST /api/upload and PUT /api/projects/:id                              *)

UpperChars == <<"A", "B", "C", "D", "E", "F", "G", "H", "I", "J", "K", "L", "M",
                "N", "O", "P", "Q", "R", "S", "T", "U", "V", "W", "X", "Y", "Z">>
LowerChars == <<"a", "b", "c", "d", "e", "f", "g", "h", "i", "j", "k", "l", "m",
                "n", "o", "p", "q", "r", "s", "t", "u", "v", "w", "x", "y", "z">>

(* String.prototype.toLowerCase                                            *)
ToLowerCase(s) ==
    [i \in 1..Len(s) |->
        IF \E j \in 1..26 : UpperChars[j] = s[i]
        THEN LowerChars[CHOOSE j \in 1..26 : UpperChars[j] = s[i]]
        ELSE s[i]]

(* String.prototype.trim (and express-validator's trim()), for blanks.     *)
RECURSIVE Trim(_)
Trim(s) ==
    IF s = <<>> THEN s
    ELSE IF s[1] = " " THEN Trim(Tail(s))
    ELSE IF s[Len(s)] = " " THEN Trim(SubSeq(s, 1, Len(s) - 1))
    ELSE s

(* body(field).optional().trim(): the field as the handler reads it.       *)
Trimmed(v) == IF v.t = "undefined" THEN v ELSE Str(Trim(FieldString(v)))

(* isLength({ min, max })                                                  *)
IsLength(v, min, max) == Len(FieldString(v)) >= min /\ Len(FieldString(v)) <= max

(* The validation chain of the metadata route, on the trimmed fields.      *)
MetadataValidators(body) ==
    /\ Optional(Prop(body, "title"),
                IsLength(Trimmed(Prop(body, "title")), 1, TitleMax))
    /\ Optional(Prop(body, "description"),
                IsLength(Trimmed(Prop(body, "description")), 0, DescriptionMax))
    /\ Optional(Prop(body, "tags"), Prop(body, "tags").t = "array")
    /\ Optional(Prop(body, "starred"), IsBoolean(Prop(body, "starred")))
    /\ Optional(Prop(body, "isPublic"), IsBoolean(Prop(body, "isPublic")))

(* Mongoose's cast of a Boolean path, on values isBoolean() lets through.  *)
CastBoolean(v) == ToStringJS(v) \in {<<"t", "r", "u", "e">>, <<"1">>}

(* tags.map(tag => tag.toString().trim().toLowerCase())                    *)
(*     .filter(tag => tag && tag.length <= 30)                             *)
NormalTags(tags) ==
    LET mapped == [i \in 1..Len(tags.a) |-> ToLowerCase(Trim(ToStringJS(tags.a[i])))]
        Keep(tag) == tag # <<>> /\ Len(tag) <= TagMax
    IN  SelectSeq(mapped, Keep)

(* The metadata route renaming the stored image along with the title.      *)
WithMetadataAndFilename(doc, body) ==
    [doc EXCEPT
        !.title = IF Prop(body, "title").t # "undefined"
                  THEN Trimmed(Prop(body, "title")).s ELSE @,
        !.image.originalFilename =
                  IF Prop(body, "title").t # "undefined"
                  THEN Trimmed(Prop(body, "title")).s ELSE @]

(* The assignments of the metadata route to the document it found.         *)
WithMetadata(doc, body) ==
    [doc EXCEPT
        !.title = IF Prop(body, "title").t # "undefined"
                  THEN Trimmed(Prop(body, "title")).s ELSE @,
        !.description = IF Prop(body, "description").t # "undefined"
                        THEN Trimmed(Prop(body, "description")).s ELSE @,
        !.starred = IF Prop(body, "starred").t # "undefined"
                    THEN CastBoolean(Prop(body, "starred")) ELSE @,
        !.isPublic = IF Prop(body, "isPublic").t # "undefined"
                     THEN CastBoolean(Prop(body, "isPublic")) ELSE @,
        !.tags = IF Prop(body, "tags").t # "undefined"
                 THEN NormalTags(Prop(body, "tags")) ELSE @]

(* project.save() of a document no other request has written since it was  *)
(* read: the stored document becomes the in-memory one.                    *)
SaveAll(stored, doc) == doc

MetadataBodies ==
    {Obj("title" :> Str(<<" ", "N", "e", "w">>)),
     Obj("title" :> Str(<<" ">>)),
     Obj("starred" :> Bool(TRUE)),
     Obj("starred" :> Str(<<"y", "e", "s">>)),
     Obj("isPublic" :> Str(<<"1">>) @@ "description" :> Str(<<"d">>)),
     Obj("tags" :> Arr(<<Str(<<"S", "k", "y", " ">>), Str(<<" ">>)>>))}

MetadataRequests ==
    {Request("metadata", Owner, b) : b \in MetadataBodies}
    \cup {Request("metadata", Other, Obj("starred" :> Bool(TRUE))),
          Request("metadata", Other, Obj("starred" :> Str(<<"y", "e", "s">>)))}

(* PUT /api/projects/:id                                                   *)
PutMetadata ==
    /\ steps < MaxSteps
    /\ \E r \in MetadataRequests :
      LET user == r.user
          body == r.body
      IN
        /\ req' = r
        /\ IF ~MetadataValidators(body)
           THEN /\ res' = [status |-> 400, error |-> "Validation failed"]
                /\ db' = db
           ELSE IF ~FindOne(db, user)
           THEN /\ res' = [status |-> 404, error |-> "Project not found"]
                /\ db' = db
           ELSE /\ res' = [status |-> 200, error |-> ""]
                /\ db' = SaveAll(db, WithMetadata(db, body))
    /\ steps' = steps + 1
    /\ UNCHANGED <<now, nextId, inflight, account, editor, cropTool, utils>>

(* The validators imageSchema declares, run by save().                     *)
ImageValid(image) ==
    /\ image.mimeType \in {"image/jpeg", "image/png", "image/tiff",
                           "image/webp", "image/raw"}
    /\ image.size >= 0
    /\ image.dimensions.width >= 1
    /\ image.dimensions.height >= 1

Files ==
    {NoFile,
     TestFile,
     File(<<"a">>, <<".", "p", "n", "g">>, "image/png", StorageLimit - 2)}

UploadBodies == {Obj(NoProps), Obj("title" :> Str(<<"S", "u", "n">>))}

(* POST /api/upload, for a user who has no project yet.                    *)
PostUpload ==
    /\ db = NoProject
    /\ \E file \in Files, body \in UploadBodies,
          metadata \in {NoMetadata, TestMetadata, Metadata(0, ImgH)} :
        /\ req' = [op |-> "upload", user |-> Owner, body |-> body, file |-> file]
        /\ IF file = NoFile
           THEN /\ res' = [status |-> 400, error |-> "No image file provided"]
                /\ UNCHANGED <<db, account, nextId>>
           ELSE IF account.storageUsed + file.size > account.storageLimit
           THEN /\ res' = [status |-> 413, error |-> "Storage limit exceeded"]
                /\ UNCHANGED <<db, account, nextId>>
           ELSE IF metadata = NoMetadata
           THEN /\ res' = [status |-> 400, error |-> "Could not process image file"]
                /\ UNCHANGED <<db, account, nextId>>
           ELSE LET project == Uploaded(file, metadata, body, nextId, now)
                IN  IF ~(ImageValid(project.image) /\ SchemaValid(project))
                    THEN /\ res' = [status |-> 500, error |-> "Server error"]
                         /\ UNCHANGED <<db, account, nextId>>
                    ELSE /\ res' = [status |-> 201, error |-> ""]
                         /\ db' = project
                         /\ nextId' = nextId + 1
                         /\ account' = [account EXCEPT
                                           !.storageUsed = @ + file.size]
    /\ UNCHANGED <<now, steps, inflight, editor, cropTool, utils>>

InitUpload ==
    /\ db = NoProject
    /\ now = 0
    /\ nextId = 1
    /\ steps = 0
    /\ req = NoRequest
    /\ res = NoResponse
    /\ inflight = [s \in Slots |-> Idle]
    /\ account \in {[storageUsed |-> used, storageLimit |-> StorageLimit] :
                       used \in {0, 4}}
    /\ editor = Loading
    /\ cropTool = Mounted
    /\ InitUtils

(* One edit of each kind, to follow an upload.                             *)
UploadEdits ==
    RequestsOf({Obj("exposure" :> Num(10))},
               {Obj(Rect(Num(2), Num(1), Num(8), Num(4)) @@ "rotation" :> Num(90))})

NextUpload ==
    \/ PostUpload
    \/ PutAdjustments(UploadEdits)
    \/ PutCrop(UploadEdits)
    \/ PostReset(UploadEdits)
    \/ PutMetadata
    \/ Tick

SpecUpload == InitUpload /\ [][NextUpload]_vars

-----------------------------------------------------------------------------
(* GET /api/projects/:id and DELETE /api/projects/:id, and every /:id      *)
(* route called by the owner and by another user.                          *)

(* The project object of the GET /:id response.                            *)
ProjectResponse(project) ==
    [title |-> project.title,
     description |-> project.description,
     image |-> [url |-> project.image.filename,
                thumbnailUrl |-> project.image.thumbnailPath,
                previewUrl |-> project.image.previewPath,
                originalFilename |-> project.image.originalFilename,
                dimensions |-> project.image.dimensions,
                size |-> project.image.size,
                metadata |-> project.image.metadata],
     adjustments |-> project.adjustments,
     crop |-> project.crop,
     tags |-> project.tags,
     starred |-> project.starred,
     isPublic |-> project.isPublic,
     lastEdited |-> project.lastEdited,
     version |-> project.version,
     history |-> project.history]

(* GET /api/projects/:id: it writes nothing and is not counted in `steps`. *)
GetProject ==
    /\ steps < MaxSteps
    /\ \E user \in {Owner, Other} :
        /\ req' = Request("get", user, Null)
        /\ res' = IF ~FindOne(db, user)
                  THEN [status |-> 404, error |-> "Project not found"]
                  ELSE [status |-> 200, error |-> "",
                        project |-> ProjectResponse(db)]
    /\ UNCHANGED <<db, now, nextId, steps, inflight, account, editor, cropTool, utils>>

(* DELETE /api/projects/:id: the files unlinked, the user's storageUsed    *)
(* decremented by the image size, the document deleted.                    *)
DeleteProject ==
    /\ steps < MaxSteps
    /\ \E user \in {Owner, Other} :
        /\ req' = Request("delete", user, Null)
        /\ IF ~FindOne(db, user)
           THEN /\ res' = [status |-> 404, error |-> "Project not found"]
                /\ UNCHANGED <<db, account>>
           ELSE /\ res' = [status |-> 200, error |-> ""]
                /\ account' = [account EXCEPT !.storageUsed = @ - db.image.size]
                /\ db' = NoProject
    /\ steps' = steps + 1
    /\ UNCHANGED <<now, nextId, inflight, editor, cropTool, utils>>

(* Requests of another user whose bodies fail the routes' validators.      *)
InvalidForeignRequests ==
    {Request("adjustments", Other, Arr(<<>>)),
     Request("crop", Other, Obj(Rect(Num(0), Num(0), Num(0), Num(5))))}

AccessRequests == Requests \cup InvalidForeignRequests

NextAccess ==
    \/ GetProject
    \/ PutMetadata
    \/ PutAdjustments(AccessRequests)
    \/ PutCrop(AccessRequests)
    \/ PostReset(AccessRequests)
    \/ DeleteProject
    \/ GetHistory
    \/ Tick

SpecAccess == Init /\ [][NextAccess]_vars

-----------------------------------------------------------------------------
(* An ImageCache used over time.                                           *)
NextCache ==
    \/ CacheGet
    \/ CacheSet
    \/ CacheClear
    \/ Tick

SpecCache == Init /\ [][NextCache]_vars

(* A debounced function called over time.                                  *)
NextDebounce ==
    \/ CallDebounced
    \/ RunTimeout
    \/ Elapse

SpecDebounce == Init /\ [][NextDebounce]_vars

(* Concurrent single and batch uploads and deletions of a user who starts  *)
(* with no project.                                                        *)
InitStorage ==
    /\ db = NoProject
    /\ now = 0
    /\ nextId = 1
    /\ steps = 0
    /\ req = NoRequest
    /\ res = NoResponse
    /\ inflight = [s \in Slots |-> Idle]
    /\ account = [storageUsed |-> 0, storageLimit |-> StorageLimit]
    /\ editor = Loading
    /\ cropTool = Mounted
    /\ InitUtils

NextStorage ==
    \/ PostSingle
    \/ PostBatch
    \/ UploadChecks
    \/ UploadSaves
    \/ UploadIncrements
    \/ DeleteAny

SpecStorage == InitStorage /\ [][NextStorage]_vars

(* Files dropped on the dashboard in up to MaxBatches batches.             *)
NextDashboard ==
    \/ DropFiles
    \/ UploadSettles
    \/ CleanupTimeout

SpecDashboard == Init /\ [][NextDashboard]_vars

(* processBatch called with any item list and any batch size; the event    *)
(* loop runs every continuation that is ready.                             *)
InitBatch ==
    /\ db = Uploaded(TestFile, TestMetadata, Obj(NoProps), 1, 0)
    /\ now = 0
    /\ nextId = 2
    /\ steps = 0
    /\ req = NoRequest
    /\ res = NoResponse
    /\ inflight = [s \in Slots |-> Idle]
    /\ account = AccountAfter(TestFile)
    /\ editor = Loading
    /\ cropTool = Mounted
    /\ InitIdle
    /\ \E items \in ItemLists, batchSize \in BatchSizes :
            batch = processBatch(items, batchSize)

NextBatch ==
    \/ BatchLoop
    \/ BatchReturn

SpecBatch ==
    InitBatch /\ [][NextBatch]_vars /\ WF_vars(BatchLoop) /\ WF_vars(BatchReturn)

(* The browser components on their own, the server at rest.                *)

NextEditor ==
    \/ LoadProject
    \/ ChangeAdjustments
    \/ ChangeCrop
    \/ Export
    \/ SaveProject
    \/ ApplyCrop

SpecEditor == Init /\ [][NextEditor]_vars

NextCropTool ==
    \/ ImageLoaded
    \/ ClickRotate
    \/ ClickFlip
    \/ ClickReset

SpecCropTool == Init /\ [][NextCropTool]_vars

-----------------------------------------------------------------------------
(* Requests in flight together.  A handler awaits findOne, runs its        *)
(* validation and the model method on the document it was given, then      *)
(* awaits save: other requests' reads and writes fall between the two.     *)
(* Curves patches are left out here: a $set of an array is versioned by    *)
(* the driver apart from the paths modelled in Save.                       *)

ConcRequests ==
    RequestsOf({Obj("exposure" :> Num(10)),
                Obj("contrast" :> Num(-500) @@ "foo" :> Num(3)),
                Obj("grain" :> Obj("amount" :> Num(150)))},
               {Obj(Rect(Num(5), Num(0), Num(10), Num(5)))})
    \cup {Request("reset", Other, Null)}

(* findOne and everything up to the call of save().                        *)
Receive(s, request) ==
    /\ steps < MaxSteps
    /\ inflight[s].pc = "idle"
    /\ \E h \in {Handle(request, db, nextId, now)} :
        /\ steps' = steps + 1
        /\ nextId' = IF h.pushed THEN nextId + 1 ELSE nextId
        /\ inflight' = [inflight EXCEPT ![s] =
                [pc |-> IF h.pushed THEN "saving" ELSE "done",
                 request |-> request,
                 found |-> db,
                 doc |-> h.doc,
                 status |-> h.status,
                 over |-> db.version]]
    /\ UNCHANGED <<db, now, req, res, account, editor, cropTool, utils>>

(* save() reaching the database, and the response.  `over` records the     *)
(* stored version the write met.                                           *)
Commit(s) ==
    /\ inflight[s].pc = "saving"
    /\ IF SchemaValid(inflight[s].doc)
       THEN /\ db' = Save(db, inflight[s].found, inflight[s].doc,
                          inflight[s].request.op)
            /\ inflight' = [inflight EXCEPT ![s].pc = "done",
                                            ![s].status = 200,
                                            ![s].over = db.version]
       ELSE /\ db' = db
            /\ inflight' = [inflight EXCEPT ![s].pc = "done",
                                            ![s].status = 500,
                                            ![s].over = db.version]
    /\ UNCHANGED <<now, nextId, steps, req, res, account, editor, cropTool, utils>>

NextConc ==
    \/ \E s \in Slots, r \in ConcRequests : Receive(s, r)
    \/ \E s \in Slots : Commit(s)
    \/ Tick

SpecConc == Init /\ [][NextConc]_vars


---------------------------------------------------------------------------
(* Properties.                                                             *)

Last(seq) == seq[Len(seq)]
Served == steps' = steps + 1
Tagged(op) ==
    CASE op = "adjustments" -> "adjust"
      [] op = "crop" -> "crop"
      [] OTHER -> "reset"

(* C1: a project's history never holds more than 50 entries, and the       *)
(* entries it holds are the most recently appended ones in append order    *)
(* (consecutive _ids ending at the newest): appending to a full history    *)
(* evicts exactly the oldest entry.  nextId - 1 entries were appended.     *)
C1_HistoryKeepsNewest50 ==
    LET n == Len(db.history)
    IN  /\ n <= 50
        /\ n = IF nextId - 1 < 50 THEN nextId - 1 ELSE 50
        /\ \A i \in 1..n : db.history[i]._id = nextId - 1 - n + i

(* A full history from which the upload entry and the first edit were      *)
(* evicted.                                                                *)
C1_Witness ==
    /\ Len(db.history) = 50
    /\ db.history[1]._id = 2
    /\ db.history[1].action = "adjust"
    /\ res.status = 200

(* C2: every applied adjustments, crop or reset request appends exactly    *)
(* one entry, tagged adjust, crop or reset, as the newest entry (dropping  *)
(* the oldest one of a full history), raises the version by exactly 1 and  *)
(* stamps lastEdited with the clock; no step lowers the version.           *)
C2_EditAppendsOneEntry ==
    [][/\ db'.version >= db.version
       /\ (Served /\ res'.status = 200) =>
            /\ db'.version = db.version + 1
            /\ db'.lastEdited = now
            /\ Last(db'.history)._id = nextId
            /\ Last(db'.history).action = Tagged(req'.op)
            /\ Last(db'.history).timestamp = now
            /\ LET kept == IF Len(db.history) = 50
                           THEN Tail(db.history) ELSE db.history
               IN  /\ Len(db'.history) = Len(kept) + 1
                   /\ \A i \in 1..Len(kept) :
                         db'.history[i]._id = kept[i]._id
                         /\ db'.history[i].action = kept[i].action]_vars

(* A reset applied as the second edit, after the clock has advanced.       *)
C2_Witness ==
    /\ req.op = "reset"
    /\ res.status = 200
    /\ Last(db.history).action = "reset"
    /\ db.version = 52
    /\ db.lastEdited = 1

C6_InvalidFieldsSkipped ==
    [][(Served /\ req'.op = "adjustments" /\ req'.user = Owner
            /\ req'.body.t = "object") =>
        /\ res'.status = 200
        /\ DOMAIN db'.adjustments = DOMAIN db.adjustments
        /\ \A f \in AllowedFields \cap DOMAIN req'.body.o :
              IF req'.body.o[f].t = "number"
              THEN db'.adjustments[f] =
                      IF f = "exposure" /\ req'.body.o[f].n > 5 THEN 5
                      ELSE IF f = "exposure" /\ req'.body.o[f].n < -5 THEN -5
                      ELSE IF req'.body.o[f].n > 100 THEN 100
                      ELSE IF req'.body.o[f].n < -100 THEN -100
                      ELSE req'.body.o[f].n
              ELSE db'.adjustments[f] = db.adjustments[f]]_vars

(* A patch with an unknown key and a valid contrast: contrast applied.     *)
C6_Witness ==
    /\ req.op = "adjustments"
    /\ res.status = 200
    /\ "foo" \in DOMAIN req.body.o
    /\ Prop(req.body, "contrast") = Num(150)
    /\ db.adjustments.contrast = 100

(* Whether every element of a supplied curves array is a point with        *)
(* numeric x and y inside [0,255].                                         *)
AllPointsValid(curves) ==
    \A i \in 1..Len(curves.a) :
        LET p == curves.a[i]
        IN  /\ p.t = "object"
            /\ Prop(p, "x").t = "number" /\ Prop(p, "y").t = "number"
            /\ Prop(p, "x").n >= 0 /\ Prop(p, "x").n <= 255
            /\ Prop(p, "y").n >= 0 /\ Prop(p, "y").n <= 255

(* C7: when the curves array of a patch holds an invalid point, the stored *)
(* curve is left as it was.                                                *)
C7_CurvesAllOrNothing ==
    [][(Served /\ req'.op = "adjustments" /\ res'.status = 200
            /\ Prop(req'.body, "curves").t = "array"
            /\ ~AllPointsValid(Prop(req'.body, "curves"))) =>
        db'.adjustments.curves = db.adjustments.curves]_vars

(* C8: an applied adjustments request leaves every scalar the patch does   *)
(* not give as a number as it was, leaves the curve as it was when the     *)
(* patch has no curves, and for grain stores each numeric sub-field        *)
(* clamped to [0,100] while the other sub-fields keep their values.        *)
C8_OnlyPatchedFieldsChange ==
    [][(Served /\ req'.op = "adjustments" /\ res'.status = 200) =>
        LET body == req'.body
            grain == Prop(body, "grain")
        IN  /\ \A f \in AllowedFields :
                  (f \notin DOMAIN body.o \/ body.o[f].t # "number") =>
                      db'.adjustments[f] = db.adjustments[f]
            /\ "curves" \notin DOMAIN body.o =>
                  db'.adjustments.curves = db.adjustments.curves
            /\ \A g \in GrainKeys :
                  IF Prop(grain, g).t = "number"
                  THEN db'.adjustments.grain[g] =
                          IF Prop(grain, g).n > 100 THEN 100
                          ELSE IF Prop(grain, g).n < 0 THEN 0
                          ELSE Prop(grain, g).n
                  ELSE db'.adjustments.grain[g] = db.adjustments.grain[g]]_vars

(* A grain patch giving size and roughness only, on a project whose grain  *)
(* amount had been set: the amount is kept, the size clamped.              *)
C8_Witness ==
    /\ req.op = "adjustments"
    /\ res.status = 200
    /\ DOMAIN Prop(req.body, "grain").o = {"size", "roughness"}
    /\ db.adjustments.grain = [amount |-> 100, size |-> 0, roughness |-> 30]

(* C9: the stored crop is null, or lies inside the image with a positive   *)
(* size and a rotation in [-180,180].                                      *)
C9_CropInsideImage ==
    \/ db.crop = NoCrop
    \/ /\ db.crop.x >= 0 /\ db.crop.y >= 0
       /\ db.crop.width > 0 /\ db.crop.height > 0
       /\ db.crop.x + db.crop.width <= db.image.dimensions.width
       /\ db.crop.y + db.crop.height <= db.image.dimensions.height
       /\ db.crop.rotation >= -180 /\ db.crop.rotation <= 180

(* C10: a crop request of the owner that passes the validators is refused  *)
(* with status 400, the project untouched, when its rectangle reaches      *)
(* outside the image, and is applied when the rectangle lies inside.       *)
C10_BoundsDecideCrop ==
    [][(Served /\ req'.op = "crop" /\ req'.user = Owner
            /\ CropValidators(req'.body)) =>
        LET x == ParseNumber(Prop(req'.body, "x")).n
            y == ParseNumber(Prop(req'.body, "y")).n
            width == ParseNumber(Prop(req'.body, "width")).n
            height == ParseNumber(Prop(req'.body, "height")).n
        IN  IF \/ x < 0 \/ y < 0
               \/ x + width > db.image.dimensions.width
               \/ y + height > db.image.dimensions.height
            THEN res'.status = 400 /\ db' = db
            ELSE res'.status = 200 /\ db'.crop # NoCrop
                 /\ db'.crop.x = x /\ db'.crop.width = width]_vars

(* C5: a save that succeeds met the stored version its handler had read:   *)
(* of two requests that read the same version, the one saving second is    *)
(* refused.                                                                *)
C5_SecondSaveRejected ==
    \A s \in Slots :
        (inflight[s].pc = "done" /\ inflight[s].status = 200) =>
            inflight[s].over = inflight[s].found.version

(* C11: a successful reset stores every adjustment at its default (scalars *)
(* 0, grain 0/50/50, curves (0,0),(255,255)) and a null crop, and the      *)
(* 'reset' entry it appends carries the adjustments and crop exactly as    *)
(* they were stored immediately before the reset.                          *)
C11_ResetRestoresDefaultsAndLogsPrior ==
    [][(Served /\ req'.op = "reset" /\ res'.status = 200) =>
        /\ \A f \in AllowedFields : db'.adjustments[f] = 0
        /\ db'.adjustments.grain = [amount |-> 0, size |-> 50, roughness |-> 50]
        /\ db'.adjustments.curves = <<[x |-> 0, y |-> 0], [x |-> 255, y |-> 255]>>
        /\ DOMAIN db'.adjustments = AllowedFields \cup {"grain", "curves"}
        /\ db'.crop = NoCrop
        /\ Last(db'.history).action = "reset"
        /\ Last(db'.history).changes =
              [old |-> [adjustments |-> db.adjustments, crop |-> db.crop]]]_vars

(* A reset served after an edit: the entry holds the edited exposure and   *)
(* the stored exposure is back at 0.                                       *)
C11_Witness ==
    /\ req.op = "reset"
    /\ res.status = 200
    /\ Last(db.history).action = "reset"
    /\ Last(db.history).changes.old.adjustments.exposure = 5
    /\ db.adjustments.exposure = 0

(* C12: every step leaves the stored history as it was, or appends one    *)
(* entry behind the unchanged old entries, or (only when the history is    *)
(* full at 50) drops exactly the oldest entry and appends one behind the   *)
(* other 49, which keep their action, timestamp, changes and order.        *)
C12_HistoryAppendOnly ==
    [][LET old == db.history
           new == db'.history
       IN  \/ new = old
           \/ /\ Len(old) < 50
              /\ Len(new) = Len(old) + 1
              /\ SubSeq(new, 1, Len(old)) = old
           \/ /\ Len(old) = 50
              /\ Len(new) = 50
              /\ SubSeq(new, 1, 49) = SubSeq(old, 2, 50)]_vars

(* An eviction happened at a later time than the retained entries were     *)
(* written: the oldest entry is gone, the second oldest leads the list     *)
(* with its original timestamp, and the newest carries the later one.      *)
C12_Witness ==
    /\ Len(db.history) = 50
    /\ db.history[1]._id = 2
    /\ db.history[1].timestamp = 0
    /\ Last(db.history).timestamp > 0

(* C13: the history a caller is given by GET /:id/history is in            *)
(* chronological order, the most recent entry last.                        *)
C13_HistoryListedOldestFirst ==
    (req.op = "history" /\ res.status = 200) =>
        \A i \in 1..(Len(res.history) - 1) :
            res.history[i].timestamp <= res.history[i + 1].timestamp

(* C14: the project a successful upload creates has every scalar          *)
(* adjustment 0, grain 0/50/50, curves (0,0),(255,255), a null crop, and a *)
(* history of exactly one entry, whose action is 'upload'.                 *)
C14_UploadCreatesDefaultProject ==
    [][(req'.op = "upload" /\ res'.status = 201 /\ db' # db) =>
        /\ db = NoProject
        /\ \A f \in AllowedFields : db'.adjustments[f] = 0
        /\ db'.adjustments.grain = [amount |-> 0, size |-> 50, roughness |-> 50]
        /\ db'.adjustments.curves = <<[x |-> 0, y |-> 0], [x |-> 255, y |-> 255]>>
        /\ db'.crop = NoCrop
        /\ Len(db'.history) = 1
        /\ db'.history[1].action = "upload"]_vars

(* The 201 response of an upload that fitted the storage limit, with the   *)
(* project it created.                                                     *)
C14_Witness ==
    /\ req.op = "upload"
    /\ res.status = 201
    /\ db # NoProject
    /\ db.image.mimeType = "image/png"
    /\ account.storageUsed = StorageLimit - 2

(* C15: no adjustments update, crop update, reset or metadata update        *)
(* changes the stored image record (filename, path, mimeType, dimensions,  *)
(* size and the rest of it), and an adjustments update, crop update or     *)
(* reset changes no field other than adjustments, crop, history, version   *)
(* and lastEdited.                                                         *)
C15_OriginalImageUntouched ==
    [][db # NoProject =>
        /\ db' # NoProject
        /\ db'.image = db.image
        /\ DOMAIN db' = DOMAIN db
        /\ (req'.op \in {"adjustments", "crop", "reset"} /\ Served) =>
              \A k \in DOMAIN db \ {"adjustments", "crop", "history",
                                      "version", "lastEdited"} :
                  db'[k] = db[k]]_vars

(* A renamed project that was cropped before: the image record still has   *)
(* the uploaded file's name and the sensor's dimensions.                    *)
C15_Witness ==
    /\ req.op = "metadata"
    /\ res.status = 200
    /\ db.title = <<"N", "e", "w">>
    /\ db.crop # NoCrop
    /\ db.image.originalFilename = <<"I", "M", "G", ".", "j", "p", "g">>
    /\ db.image.dimensions = [width |-> ImgW, height |-> ImgH]

(* The parameter a CSS filter function is built from.                      *)
ParameterOf(fn) ==
    CASE fn = "brightness" -> "exposure"
      [] fn = "contrast" -> "contrast"
      [] fn = "saturate" -> "saturation"
      [] OTHER -> "temperature"

(* C16: the filter built for the canvas holds a function for a parameter   *)
(* only when that parameter is not 0, and when every scalar parameter is 0 *)
(* it is 'none' with no function at all and the canvas shows the source    *)
(* pixel unchanged.                                                        *)
C16_StagesOnlyForNonZero ==
    editor.loaded =>
        /\ \A i \in 1..Len(editor.filter.functions) :
              editor.adjustments[ParameterOf(editor.filter.functions[i].fn)] # 0
        /\ (\A f \in AllowedFields : editor.adjustments[f] = 0) =>
              /\ editor.filter.none
              /\ editor.filter.functions = <<>>
              /\ editor.canvas = SourcePixel

(* Sliders moved and moved back to 0: the filter is 'none' again.          *)
C16_Witness ==
    /\ editor.loaded
    /\ editor.hasUnsavedChanges
    /\ \A f \in AllowedFields : editor.adjustments[f] = 0
    /\ editor.filter.none
    /\ editor.canvas = SourcePixel

(* The place of a filter function in the pipeline order of the             *)
(* specification: exposure, contrast, temperature, saturation.             *)
PipelineRank(fn) ==
    CASE fn = "brightness" -> 1
      [] fn = "contrast" -> 2
      [] fn = "hue-rotate" -> 3
      [] OTHER -> 4

(* C17: the functions of the filter built for the canvas come in pipeline  *)
(* order, so the temperature function stands before the saturation one.    *)
C17_StagesInPipelineOrder ==
    editor.loaded =>
        \A i, j \in 1..Len(editor.filter.functions) :
            i < j => PipelineRank(editor.filter.functions[i].fn)
                        < PipelineRank(editor.filter.functions[j].fn)

RECURSIVE Pow2(_)
Pow2(n) == IF n = 0 THEN 1 ELSE 2 * Pow2(n - 1)

(* The factor num/den by which the filter's functions multiply a pixel     *)
(* value for exposure: the brightness argument, or 1 without one.          *)
ExposureGain(css) ==
    IF \E i \in 1..Len(css.functions) : css.functions[i].fn = "brightness"
    THEN LET stage == css.functions[CHOOSE i \in 1..Len(css.functions) :
                                        css.functions[i].fn = "brightness"]
         IN  [num |-> stage.num, den |-> stage.den]
    ELSE [num |-> 1, den |-> 1]

(* C18: for exposure e the exposure gain of the filter is 2^e.             *)
C18_ExposureGainIsPowerOfTwo ==
    editor.loaded =>
        LET e == editor.adjustments.exposure
            gain == ExposureGain(editor.filter)
        IN  IF e >= 0 THEN gain.num = Pow2(e) * gain.den
                      ELSE gain.num * Pow2(-e) = gain.den

(* C19: an export whose bytes are those of the unmodified original file is *)
(* made only while the adjustments are the defaults and the crop is null.  *)
C19_ExportRendersEdits ==
    [][(editor.loaded /\ editor'.exported # editor.exported
            /\ editor'.exported.blob = FileBytes(editor.image.url)) =>
        /\ editor.adjustments = DefaultAdjustments
        /\ editor.crop = NoCrop]_vars

(* The flip flags of the crop tool: the component's and the image's.       *)
FlipState(tool) ==
    [flipX |-> tool.flipX, flipY |-> tool.flipY,
     image |-> IF tool.image = NoImage THEN NoImage
               ELSE [flipX |-> tool.image.flipX, flipY |-> tool.image.flipY]]

(* What may be clicked between two flips of `axis`: up to two of rotate    *)
(* left, rotate right and the flip of the other axis.                      *)
OtherClicks(axis) ==
    {<<"rotate", -90>>, <<"rotate", 90>>,
     <<"flip", IF axis = "x" THEN "y" ELSE "x">>}
Between(axis) ==
    {<<>>} \cup {<<c>> : c \in OtherClicks(axis)}
           \cup {<<c, d>> : c, d \in OtherClicks(axis)}

Click(tool, c) ==
    IF c[1] = "rotate" THEN handleRotate(tool, c[2]) ELSE handleFlip(tool, c[2])

RECURSIVE Clicks(_, _)
Clicks(tool, cs) ==
    IF cs = <<>> THEN tool ELSE Clicks(Click(tool, Head(cs)), Tail(cs))

(* C20: from every state of the crop tool, two flips of one axis, with     *)
(* rotations and flips of the other axis between them, leave that axis's   *)
(* flip flag of the component and of the image object as they were.        *)
C20_DoubleFlipRestores ==
    \A axis \in {"x", "y"} : \A between \in Between(axis) :
        LET once == handleFlip(cropTool, axis)
            twice == handleFlip(Clicks(once, between), axis)
            key == IF axis = "x" THEN "flipX" ELSE "flipY"
        IN  /\ twice[key] = cropTool[key]
            /\ FlipState(twice).image = NoImage \/
               FlipState(twice).image[key] = FlipState(cropTool).image[key]

(* C26: the rotation the crop tool holds, which it reports in CropSettings,  *)
(* stays within [-180,180], the range the crop route's validator accepts.  *)
C26_RotationInServerRange ==
    /\ cropTool.rotation >= RotationMin
    /\ cropTool.rotation <= RotationMax

(* C30: while the editor's adjustments or crop differ from the project as  *)
(* the server holds it (what was loaded, nothing having been sent since),   *)
(* hasUnsavedChanges is true.                                              *)
C30_UnsavedChangesFlagged ==
    (editor.loaded /\ (editor.adjustments # db.adjustments
                          \/ editor.crop # db.crop)) =>
        editor.hasUnsavedChanges


(* A step that answers a request of a user who does not own the project.   *)
ForeignAnswered ==
    /\ db # NoProject
    /\ req'.user = Other
    /\ <<req, res, steps>>' # <<req, res, steps>>

(* C22 as stated.  A request of another user to any /:id route (get,       *)
(* metadata, adjustments, crop, reset, delete, history) is answered 404,   *)
(* the response carries no field of the project, and neither the document  *)
(* nor the owner's account changes.                                        *)
C22_ForeignAlways404 ==
    [][ForeignAnswered =>
          /\ res'.status = 404
          /\ DOMAIN res' = {"status", "error"}
          /\ db' = db
          /\ account' = account]_vars

(* C22, amended.  A request of another user to any /:id route is answered  *)
(* 404, or 400 when the route is metadata, adjustments or crop and the     *)
(* body fails validation; the response carries no field of the project,    *)
(* and neither the document nor the owner's account changes.               *)
C22_ForeignRefusedWithoutEffect ==
    [][ForeignAnswered =>
          /\ res'.status \in {404, 400}
          /\ res'.status = 400 => req'.op \in {"metadata", "adjustments", "crop"}
          /\ DOMAIN res' = {"status", "error"}
          /\ db' = db
          /\ account' = account]_vars

(* Another user's DELETE of an existing project has been refused.          *)
C22_Witness ==
    /\ db # NoProject
    /\ req.user = Other
    /\ req.op = "delete"
    /\ res.status = 404


(* C23.  The size of an ImageCache never exceeds its maxSize, whatever     *)
(* gets, sets and clears were made and whatever the clock read.            *)
C23_CacheSizeBounded == size(imageCache) <= imageCache.maxSize

(* The entries of a cache with the least access time.                      *)
LeastRecent(this) ==
    {this.accessTimes[i].key : i \in
        {i \in 1..Len(this.accessTimes) :
            \A j \in 1..Len(this.accessTimes) :
                this.accessTimes[i].value <= this.accessTimes[j].value}}

CacheKeys(this) == {this.cache[i].key : i \in 1..Len(this.cache)}

(* C24.  On a full cache, set() evicts exactly one entry, one that was     *)
(* least recently got or set, before it stores the new one.                *)
C24_FullSetEvictsLeastRecent ==
    size(imageCache) = imageCache.maxSize =>
        \A url \in Urls \ CacheKeys(imageCache) :
            LET after == set(imageCache, url, now)
                evicted == CacheKeys(imageCache) \ CacheKeys(after)
            IN  /\ Cardinality(evicted) = 1
                /\ evicted \subseteq LeastRecent(imageCache)
                /\ url \in CacheKeys(after)


(* The index of the last call of the debounced function before event i.    *)
LastCallBefore(log, i) ==
    LET calls == {j \in 1..(i - 1) : log[j].event = "call"}
    IN  IF calls = {} THEN 0 ELSE CHOOSE j \in calls : \A k \in calls : k <= j

(* C25.  The callback runs only `delay` after the latest call of the       *)
(* debounced function and with that call's arguments, hence never while    *)
(* less than `delay` has passed since the latest call; it runs once for    *)
(* a burst of calls less than `delay` apart; and the clock does not pass   *)
(* `delay` after the latest call without the callback having run.          *)
C25_DebounceRunsOnceAfterLastCall ==
    LET log == debounce.log
    IN  /\ \A i \in 1..Len(log) :
            log[i].event = "callback" =>
                LET c == LastCallBefore(log, i)
                IN  /\ c = i - 1
                    /\ log[i].at = log[c].at + Delay
                    /\ log[i].args = log[c].args
        /\ (Len(log) > 0 /\ log[Len(log)].event = "call") =>
                now <= log[Len(log)].at + Delay

(* Two calls less than `delay` apart with different arguments, then the    *)
(* one callback.                                                           *)
C25_Witness ==
    LET log == debounce.log
    IN  /\ Len(log) = 3
        /\ log[1].event = "call" /\ log[2].event = "call"
        /\ log[2].at - log[1].at < Delay
        /\ log[2].at > log[1].at
        /\ log[1].args # log[2].args
        /\ log[3].event = "callback"


(* C29.  processBatch eventually resolves, whatever the item list and the  *)
(* batch size, and result i is processor(items[i]).                        *)
C29_BatchResolvesInOrder ==
    <>(/\ batch.resolved
       /\ batch.results = [k \in 1..Len(batch.items) |-> processor(batch.items[k])])


(* C27.  No entry of the dashboard's upload list is removed while its      *)
(* status is 'pending' or 'uploading', whichever cleanup timers run.       *)
C27_UnfinishedUploadsStayListed ==
    [][\A i \in 1..Len(dashboard.uploads) :
          dashboard.uploads[i].status \in {"pending", "uploading"} =>
              \E j \in 1..Len(dashboard'.uploads) :
                  dashboard'.uploads[j].id = dashboard.uploads[i].id]_vars


(* C21.  storageUsed never exceeds storageLimit, however concurrent single *)
(* and batch uploads interleave; and an upload answered 413 has created no *)
(* project and has left none of its files on disk.                         *)
C21_StorageWithinLimit ==
    /\ account.storageUsed <= account.storageLimit
    /\ \A s \in Slots :
        storage.uploads[s].status = 413 =>
            /\ FileIds(storage.uploads[s].files) \cap storage.disk = {}
            /\ \A project \in storage.projects :
                   project.id \notin FileIds(storage.uploads[s].files)

RECURSIVE SumOfSizes(_)
SumOfSizes(projects) ==
    IF projects = {} THEN 0
    ELSE LET project == CHOOSE p \in projects : TRUE
         IN  project.size + SumOfSizes(projects \ {project})

=============================================================================
